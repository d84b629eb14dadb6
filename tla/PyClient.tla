------------------------------ MODULE PyClient ------------------------------
(***************************************************************************)
(* The client of the Python SDK (wirechat-sdk-python/src/wirechat/         *)
(* client.py): connect and close, the requests queued by join, leave and   *)
(* send, and the read and write tasks, a pair of them per connection, each *)
(* of which calls close itself when its loop ends.                         *)
(*                                                                         *)
(* Everything runs on one event loop: cpu is the task that is running, and *)
(* nothing else moves until it awaits something that is not there yet.     *)
(* The n-th call of connect makes the n-th queue, connection and pair of   *)
(* tasks; 0 is None.  connect and close are called from one task, the      *)
(* application, as SDK.v1.md section 5.1 asks.                             *)
(***************************************************************************)
EXTENDS Naturals, Sequences

CONSTANTS
    QueueSize,      \* maxsize of the queue (16 in connect)
    MaxTries,       \* bound: calls of connect
    MaxCalls        \* bound: calls of join, leave and send

ASSUME BoundsAssumption ==
    QueueSize \in Nat \ {0} /\ MaxTries \in Nat \ {0} /\ MaxCalls \in Nat

VARIABLES
    connected, closing,     \* self._connected, self._closing
    lock,                   \* self._lock is held (over an await: by connect)
    ws, writeQueue,         \* self._ws, self._write_queue
    readTask, writeTask,    \* self._read_task, self._write_task
    queue,                  \* the contents of each queue
    link, wire,             \* the connections, and the frames sent on them
    cpu,                    \* the task that is running
    pc,                     \* the place of each task
    on,                     \* the queue, connection or task it waits for
    cancelled,              \* CancelledError is due when it runs next
    tries, calls,           \* calls of connect, and of join, leave and send
    overlap                 \* connect was once called before the tasks of
                            \* an earlier connection had ended

fields == <<connected, closing, lock, ws, writeQueue, readTask, writeTask>>
net == <<link, wire>>
count == <<tries, calls, overlap>>
vars == <<fields, queue, net, cpu, pc, on, cancelled, count>>

Tries == 1 .. MaxTries

App == <<"app", 0>>
Reader(k) == <<"read", k>>
Writer(k) == <<"write", k>>
Readers == {Reader(k) : k \in Tries}
Writers == {Writer(k) : k \in Tries}
Actors == {App} \cup Readers \cup Writers
Nobody == <<"nobody", 0>>

\* A request carries the number of its call and of the queue it was put in.
Hello == [id |-> 0, of |-> 0]

Init ==
    /\ connected = FALSE /\ closing = FALSE /\ lock = FALSE
    /\ ws = 0 /\ writeQueue = 0 /\ readTask = 0 /\ writeTask = 0
    /\ queue = [k \in Tries |-> <<>>]
    /\ link = [k \in Tries |-> "unused"] /\ wire = [k \in Tries |-> <<>>]
    /\ cpu = Nobody
    /\ pc = [a \in Actors |-> IF a = App THEN "idle" ELSE "off"]
    /\ on = [a \in Actors |-> 0] /\ cancelled = [a \in Actors |-> FALSE]
    /\ tries = 0 /\ calls = 0 /\ overlap = FALSE

-----------------------------------------------------------------------------
(* The event loop.  A task that awaits is resumed from its place, normally *)
(* or, once cancelled, by the CancelledError; a running one goes on.       *)

Resumed(a, place) == cpu = Nobody /\ pc[a] = place /\ ~cancelled[a]
Interrupted(a, places) == cpu = Nobody /\ pc[a] \in places /\ cancelled[a]
Running(a, place) == cpu = a /\ pc[a] = place

GoOn(a, place) == pc' = [pc EXCEPT ![a] = place] /\ cpu' = a
Await(a, place) == pc' = [pc EXCEPT ![a] = place] /\ cpu' = Nobody

-----------------------------------------------------------------------------
(* connect, which holds the lock throughout.                               *)

TasksLeft == \E a \in Readers \cup Writers : pc[a] \notin {"off", "done"}

\* Who waits for the lock has it before one who comes.
Contended == \E a \in Actors : pc[a] = "lock"

\* Mutant: one queue serves all the connections.
ConnectSameQueue ==
    /\ Resumed(App, "idle") /\ ~Contended /\ ~connected /\ tries < MaxTries
    /\ tries' = tries + 1 /\ overlap' = (overlap \/ TasksLeft)
    /\ writeQueue' = 1
    /\ closing' = FALSE
    /\ lock' = TRUE
    /\ Await(App, "dial")
    /\ UNCHANGED <<connected, ws, readTask, writeTask, queue, net, on,
                   cancelled, calls>>

ConnectCall ==
    /\ Resumed(App, "idle") /\ ~Contended /\ ~connected /\ tries < MaxTries
    /\ tries' = tries + 1 /\ overlap' = (overlap \/ TasksLeft)
    /\ writeQueue' = tries'
    /\ closing' = FALSE
    /\ lock' = TRUE
    /\ Await(App, "dial")
    /\ UNCHANGED <<connected, ws, readTask, writeTask, queue, net, on,
                   cancelled, calls>>

DialFails ==
    /\ Resumed(App, "dial") /\ GoOn(App, "undo")
    /\ UNCHANGED <<fields, queue, net, on, cancelled, count>>

\* A writer whose request has come runs in the next turn of the loop; a dial
\* takes several.
Woken(k) == pc[Writer(k)] = "get" /\ queue[on[Writer(k)]] # <<>>

\* The library takes the hello at once; what is awaited is its sending.
Dials ==
    /\ Resumed(App, "dial") /\ Await(App, "hello")
    /\ \A k \in Tries : ~Woken(k)
    /\ ws' = tries
    /\ link' = [link EXCEPT ![tries] = "open"]
    /\ wire' = [wire EXCEPT ![tries] = <<Hello>>]
    /\ UNCHANGED <<connected, closing, lock, writeQueue, readTask, writeTask,
                   queue, on, cancelled, count>>

\* The connection was lost, or the write timed out, or somebody has set _ws
\* to None; _cleanup_connection closes what _ws is now.
HelloFails ==
    /\ Resumed(App, "hello") /\ GoOn(App, "undo")
    /\ UNCHANGED <<fields, queue, net, on, cancelled, count>>

Shut(k) == link' = [link EXCEPT ![k] = "closed"]

UndoCloses ==
    /\ Running(App, "undo") /\ ws # 0 /\ Await(App, "undone")
    /\ Shut(ws)
    /\ UNCHANGED <<fields, queue, wire, on, cancelled, count>>

ConnectFails ==
    /\ (Running(App, "undo") /\ ws = 0) \/ Resumed(App, "undone")
    /\ Await(App, "idle")
    /\ ws' = 0 /\ writeQueue' = 0 /\ lock' = FALSE
    /\ UNCHANGED <<connected, closing, readTask, writeTask, queue, net, on,
                   cancelled, count>>

Connects ==
    /\ Resumed(App, "hello") /\ link[tries] # "down"
    /\ connected' = TRUE /\ lock' = FALSE
    /\ readTask' = tries /\ writeTask' = tries
    /\ pc' = [pc EXCEPT ![App] = "idle", ![Reader(tries)] = "new",
                        ![Writer(tries)] = "new"]
    /\ cpu' = Nobody
    /\ UNCHANGED <<closing, ws, writeQueue, queue, net, on, cancelled, count>>

ConnectNext ==
    \/ DialFails \/ Dials \/ HelloFails \/ UndoCloses \/ ConnectFails
    \/ Connects

-----------------------------------------------------------------------------
(* close, by the application or by a task at the end of its loop.          *)

CloseCall ==
    /\ Resumed(App, "idle") /\ GoOn(App, "enter")
    /\ UNCHANGED <<fields, queue, net, on, cancelled, count>>

Return(a) == Await(a, IF a = App THEN "idle" ELSE "done")

CloseWaits(a) ==
    /\ Running(a, "enter") /\ (lock \/ Contended) /\ Await(a, "lock")
    /\ UNCHANGED <<fields, queue, net, on, cancelled, count>>

Entered(a) ==
    /\ ~lock
    /\ (Running(a, "enter") /\ ~Contended) \/ Resumed(a, "lock")

CloseNothing(a) ==
    /\ Entered(a) /\ ~connected /\ ws = 0 /\ Return(a)
    /\ UNCHANGED <<fields, queue, net, on, cancelled, count>>

\* Mutant: the client goes on saying that it is connected.
CloseStaysConnected(a) ==
    /\ Entered(a) /\ (connected \/ ws # 0) /\ GoOn(a, "cancelRead")
    /\ closing' = TRUE
    /\ UNCHANGED <<connected, lock, ws, writeQueue, readTask, writeTask, queue,
                   net, on, cancelled, count>>

\* Mutant: the tasks are not told that they are being closed.
CloseUnmarked(a) ==
    /\ Entered(a) /\ (connected \/ ws # 0) /\ GoOn(a, "cancelRead")
    /\ connected' = FALSE
    /\ UNCHANGED <<closing, lock, ws, writeQueue, readTask, writeTask, queue,
                   net, on, cancelled, count>>

CloseStarts(a) ==
    /\ Entered(a) /\ (connected \/ ws # 0) /\ GoOn(a, "cancelRead")
    /\ closing' = TRUE /\ connected' = FALSE
    /\ UNCHANGED <<lock, ws, writeQueue, readTask, writeTask, queue, net, on,
                   cancelled, count>>

\* _cancel_task: a task that is there, not done and not the one that runs.
Cancellable(a, t) == t \in Actors /\ pc[t] # "done" /\ t # a

\* A task that awaits another passes the cancellation on to that.
Victim(t) ==
    CASE pc[t] = "awaitRead" -> Reader(on[t])
      [] pc[t] = "awaitWrite" -> Writer(on[t])
      [] OTHER -> t

Cancel(t) ==
    cancelled' =
        [cancelled EXCEPT ![Victim(t)] = @ \/ pc[Victim(t)] # "done"]

CancelRead(a) ==
    /\ Running(a, "cancelRead")
    /\ IF Cancellable(a, Reader(readTask))
       THEN /\ Cancel(Reader(readTask))
            /\ on' = [on EXCEPT ![a] = readTask]
            /\ Await(a, "awaitRead")
       ELSE GoOn(a, "cancelWrite") /\ UNCHANGED <<on, cancelled>>
    /\ UNCHANGED <<fields, queue, net, count>>

\* The CancelledError of the task that ended, or of this one, is dropped.
ReadAwaited(a) ==
    /\ cpu = Nobody /\ pc[a] = "awaitRead" /\ pc[Reader(on[a])] = "done"
    /\ GoOn(a, "cancelWrite")
    /\ UNCHANGED <<fields, queue, net, on, cancelled, count>>

CancelWrite(a) ==
    /\ Running(a, "cancelWrite")
    /\ IF Cancellable(a, Writer(writeTask))
       THEN /\ Cancel(Writer(writeTask))
            /\ on' = [on EXCEPT ![a] = writeTask]
            /\ Await(a, "awaitWrite")
       ELSE GoOn(a, "cleanup") /\ UNCHANGED <<on, cancelled>>
    /\ UNCHANGED <<fields, queue, net, count>>

WriteAwaited(a) ==
    /\ cpu = Nobody /\ pc[a] = "awaitWrite" /\ pc[Writer(on[a])] = "done"
    /\ GoOn(a, "cleanup")
    /\ UNCHANGED <<fields, queue, net, on, cancelled, count>>

\* A task that failed (no queue to get from, an assertion at its start) hands
\* its error to the close that awaits it, which ends there.  Which task failed
\* is left open; with no connect during a teardown, none does.
AwaitRaises(a) ==
    /\ overlap /\ cpu = Nobody /\ Return(a)
    /\ \/ pc[a] = "awaitRead" /\ pc[Reader(on[a])] = "done"
       \/ pc[a] = "awaitWrite" /\ pc[Writer(on[a])] = "done"
    /\ UNCHANGED <<fields, queue, net, on, cancelled, count>>

\* The closing handshake is awaited; the library bounds it.
CleanupCloses(a) ==
    /\ Running(a, "cleanup") /\ ws # 0 /\ Await(a, "wsClose")
    /\ Shut(ws)
    /\ UNCHANGED <<fields, queue, wire, on, cancelled, count>>

\* Mutant: the fields of the session are kept.
CloseKeepsQueue(a) ==
    /\ (Running(a, "cleanup") /\ ws = 0) \/ Resumed(a, "wsClose")
    /\ Return(a)
    /\ ws' = 0 /\ readTask' = 0 /\ writeTask' = 0 /\ closing' = FALSE
    /\ UNCHANGED <<connected, lock, writeQueue, queue, net, on, cancelled,
                   count>>

CloseEnds(a) ==
    /\ (Running(a, "cleanup") /\ ws = 0) \/ Resumed(a, "wsClose")
    /\ Return(a)
    /\ ws' = 0 /\ writeQueue' = 0 /\ readTask' = 0 /\ writeTask' = 0
    /\ closing' = FALSE
    /\ UNCHANGED <<connected, lock, queue, net, on, cancelled, count>>

\* CancelledError in close itself ends the task with the rest undone.
CloseInterrupted(a) ==
    /\ Interrupted(a, {"lock", "wsClose"}) /\ Await(a, "done")
    /\ cancelled' = [cancelled EXCEPT ![a] = FALSE]
    /\ UNCHANGED <<fields, queue, net, on, count>>

CloseNext(a) ==
    \/ CloseWaits(a) \/ CloseNothing(a) \/ CloseStarts(a)
    \/ CancelRead(a) \/ ReadAwaited(a) \/ CancelWrite(a) \/ WriteAwaited(a)
    \/ AwaitRaises(a) \/ CleanupCloses(a) \/ CloseEnds(a)
    \/ CloseInterrupted(a)

-----------------------------------------------------------------------------
(* What the two loops share.                                               *)

TaskStep(a) == a # App /\ UNCHANGED <<fields, net, count>>

\* The assertions at the start are outside the try; so is a cancellation
\* that comes before the first step.
Starts(a) ==
    /\ cpu = Nobody /\ pc[a] = "new"
    /\ TaskStep(a) /\ UNCHANGED <<queue, on>>
    /\ cancelled' = [cancelled EXCEPT ![a] = FALSE]
    /\ IF cancelled[a] \/ ws = 0 \/ (a \in Writers /\ writeQueue = 0)
       THEN Await(a, "done")
       ELSE GoOn(a, "top")

Leaves(a) ==
    /\ Running(a, "top") /\ ~connected /\ GoOn(a, "exit")
    /\ TaskStep(a) /\ UNCHANGED <<queue, on, cancelled>>

\* on_error has run.
Reported(a) ==
    /\ Resumed(a, "fail") /\ GoOn(a, "exit")
    /\ TaskStep(a) /\ UNCHANGED <<queue, on, cancelled>>

LoopInterrupted(a) ==
    /\ Interrupted(a, {"recv", "handler", "fail", "get", "drain"})
    /\ TaskStep(a) /\ UNCHANGED <<queue, on>>
    /\ cancelled' = [cancelled EXCEPT ![a] = FALSE]
    /\ GoOn(a, "exit")

\* finally: close, unless a close is going on.
Exits(a) ==
    /\ Running(a, "exit")
    /\ TaskStep(a) /\ UNCHANGED <<queue, on, cancelled>>
    /\ IF closing THEN Await(a, "done") ELSE GoOn(a, "enter")

-----------------------------------------------------------------------------
(* _read_loop.                                                             *)

ReaderStep(k) == TaskStep(Reader(k)) /\ UNCHANGED <<queue, cancelled>>

\* A second recv on a connection is refused, as is one on None.
Taken(k) == \E a \in Readers \ {Reader(k)} : pc[a] = "recv" /\ on[a] = ws

Reads(k) ==
    /\ ReaderStep(k) /\ Running(Reader(k), "top") /\ connected
    /\ on' = [on EXCEPT ![Reader(k)] = ws]
    /\ Await(Reader(k), IF ws = 0 \/ Taken(k) THEN "fail" ELSE "recv")

\* A frame is decoded and its handler, or on_error, awaited.
Receives(k) ==
    /\ Resumed(Reader(k), "recv") /\ link[on[Reader(k)]] = "open"
    /\ ReaderStep(k) /\ UNCHANGED on
    /\ Await(Reader(k), "handler")

Handled(k) ==
    /\ Resumed(Reader(k), "handler") /\ GoOn(Reader(k), "top")
    /\ ReaderStep(k) /\ UNCHANGED on

\* No frame in time, or one that is no JSON object: the loop ends.
ReadFails(k) ==
    /\ Resumed(Reader(k), "recv") /\ link[on[Reader(k)]] = "open"
    /\ ReaderStep(k) /\ UNCHANGED on
    /\ Await(Reader(k), "fail")

\* Mutant: the end of a connection that was closed is not seen.
NotLost(k) ==
    /\ ReaderStep(k) /\ UNCHANGED on
    /\ Resumed(Reader(k), "recv") /\ link[on[Reader(k)]] = "down"
    /\ Await(Reader(k), "fail")

\* A normal end is not reported, a loss is.
Lost(k) ==
    /\ Resumed(Reader(k), "recv") /\ link[on[Reader(k)]] # "open"
    /\ ReaderStep(k) /\ UNCHANGED on
    /\ IF link[on[Reader(k)]] = "closed"
       THEN GoOn(Reader(k), "exit")
       ELSE Await(Reader(k), "fail")

ReaderNext(k) ==
    \/ Reads(k) \/ Receives(k) \/ Handled(k) \/ ReadFails(k) \/ Lost(k)

-----------------------------------------------------------------------------
(* _write_loop.                                                            *)

WriterStep(k) ==
    UNCHANGED <<fields, link, cancelled, tries, calls, overlap>>

\* With no queue there is nothing to get from: the error ends the loop.
Gets(k) ==
    /\ Running(Writer(k), "top") /\ connected
    /\ WriterStep(k) /\ UNCHANGED <<wire, queue>>
    /\ on' = [on EXCEPT ![Writer(k)] = writeQueue]
    /\ CASE writeQueue = 0 -> GoOn(Writer(k), "exit")
         [] writeQueue # 0 /\ queue[writeQueue] = <<>> -> Await(Writer(k), "get")
         [] OTHER -> GoOn(Writer(k), "got")

\* Mutant: the request stays in the queue until it is sent.
WritesKeeping(k) ==
    /\ WriterStep(k) /\ UNCHANGED on
    /\ Running(Writer(k), "got") \/ Resumed(Writer(k), "get")
    /\ queue[on[Writer(k)]] # <<>>
    /\ UNCHANGED queue
    /\ IF ws # 0 /\ link[ws] = "open"
       THEN /\ wire' = [wire EXCEPT ![ws] = Append(@, Head(queue[on[Writer(k)]]))]
            /\ Await(Writer(k), "drain")
       ELSE Await(Writer(k), "fail") /\ UNCHANGED wire

\* The request is got from the queue that was asked, and handed to _ws as it
\* is now; on None or on a connection that is closed this is an error.
Writes(k) ==
    /\ Running(Writer(k), "got") \/ Resumed(Writer(k), "get")
    /\ WriterStep(k) /\ UNCHANGED on
    /\ queue[on[Writer(k)]] # <<>>
    /\ queue' = [queue EXCEPT ![on[Writer(k)]] = Tail(@)]
    /\ IF ws # 0 /\ link[ws] = "open"
       THEN /\ wire' = [wire EXCEPT ![ws] = Append(@, Head(queue[on[Writer(k)]]))]
            /\ Await(Writer(k), "drain")
       ELSE Await(Writer(k), "fail") /\ UNCHANGED wire

Drained(k) ==
    /\ Resumed(Writer(k), "drain") /\ GoOn(Writer(k), "top")
    /\ WriterStep(k) /\ UNCHANGED <<queue, wire, on>>

\* The connection is lost, or the write has timed out.
DrainFails(k) ==
    /\ Resumed(Writer(k), "drain") /\ Await(Writer(k), "fail")
    /\ WriterStep(k) /\ UNCHANGED <<queue, wire, on>>

WriterNext(k) == Gets(k) \/ Writes(k) \/ Drained(k) \/ DrainFails(k)

\* What a task does, in its loop and after it.
TaskNext(a) ==
    \/ Starts(a) \/ Leaves(a) \/ Reported(a) \/ LoopInterrupted(a) \/ Exits(a)
    \/ CloseNext(a)
    \/ \E k \in Tries :
        (a = Reader(k) /\ ReaderNext(k)) \/ (a = Writer(k) /\ WriterNext(k))

-----------------------------------------------------------------------------
(* join, leave and send: _enqueue, which awaits nothing but on_error.  On  *)
(* a client that is not connected they raise and change nothing.           *)

Enqueue ==
    /\ cpu = Nobody /\ calls < MaxCalls
    /\ connected /\ writeQueue # 0
    /\ calls' = calls + 1
    /\ queue' =
        IF Len(queue[writeQueue]) < QueueSize
        THEN [queue EXCEPT ![writeQueue] =
                Append(@, [id |-> calls', of |-> writeQueue])]
        ELSE queue
    /\ UNCHANGED <<fields, net, cpu, pc, on, cancelled, tries, overlap>>

(* The network: a connection is lost, or closed by the server.             *)

LinkEnds(k) ==
    /\ cpu = Nobody /\ link[k] = "open"
    /\ link' \in {[link EXCEPT ![k] = "down"], [link EXCEPT ![k] = "closed"]}
    /\ UNCHANGED <<fields, queue, wire, cpu, pc, on, cancelled, count>>

-----------------------------------------------------------------------------
AppNext == ConnectNext \/ CloseNext(App)

Next ==
    \/ ConnectCall \/ CloseCall \/ AppNext
    \/ \E a \in Readers \cup Writers : TaskNext(a)
    \/ Enqueue
    \/ \E k \in Tries : LinkEnds(k)

Spec == Init /\ [][Next]_vars
=============================================================================
