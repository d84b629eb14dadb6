---------------------------- MODULE PyClientProps ---------------------------
(***************************************************************************)
(* What the Python client should guarantee, as properties of PyClient.     *)
(* The client does not guard a connect against a teardown that one of its  *)
(* tasks is still in: overlap tells the histories in which that happened.  *)
(***************************************************************************)
EXTENDS PyClient, Tally

ClosePlaces == {"enter", "lock", "cancelRead", "awaitRead", "cancelWrite",
                "awaitWrite", "cleanup", "wsClose"}

TaskPlaces == {"off", "new", "top", "recv", "handler", "fail", "get", "got",
               "drain", "exit", "done"}
AppPlaces == {"idle", "dial", "hello", "undo", "undone"}

\* Types of the fields of WirechatClient, and of the places of the tasks.
ControlTypes ==
    /\ connected \in BOOLEAN /\ closing \in BOOLEAN
    /\ lock \in BOOLEAN /\ overlap \in BOOLEAN
    /\ ws \in 0 .. MaxTries /\ writeQueue \in 0 .. MaxTries
    /\ readTask \in 0 .. MaxTries /\ writeTask \in 0 .. MaxTries
    /\ tries \in 0 .. MaxTries
    /\ link \in [Tries -> {"unused", "open", "down", "closed"}]
    /\ cpu \in Actors \cup {Nobody}
    /\ pc \in [Actors -> ClosePlaces \cup TaskPlaces \cup AppPlaces]
    /\ on \in [Actors -> 0 .. MaxTries]
    /\ cancelled \in [Actors -> BOOLEAN]

Request == [id : 1 .. MaxCalls, of : Tries]
Frame == [id : 0 .. MaxCalls, of : 0 .. MaxTries]

FrameTypes ==
    /\ calls \in 0 .. MaxCalls
    /\ queue \in [Tries -> Seq(Request)]
    /\ \A k \in Tries : Len(queue[k]) <= QueueSize
    /\ wire \in [Tries -> Seq(Frame)]

TypeOK == ControlTypes /\ FrameTypes

-----------------------------------------------------------------------------
(* Safety                                                                  *)

\* A client that says it is connected can be used: it has its connection and
\* its queue, and both tasks, which serve just these, are there.
ConnectedUsable ==
    connected /\ ~overlap =>
        /\ ws # 0 /\ writeQueue = ws /\ readTask = ws /\ writeTask = ws
        /\ pc[Reader(ws)] # "done" /\ pc[Writer(ws)] # "done"
        /\ ~closing

\* When close returns to the application, nothing of the connection is left,
\* also when a task was closing the client at the same time.
CloseReturned == pc[App] \in ClosePlaces /\ pc'[App] = "idle"

CloseLeavesNothing ==
    [][CloseReturned /\ ~overlap =>
        /\ ~connected' /\ ~closing' /\ ws' = 0 /\ writeQueue' = 0
        /\ ~TasksLeft']_vars

\* A request is sent on the connection on which it was accepted, never on a
\* later one.
SentInItsSession ==
    \A k \in Tries : \A i \in DOMAIN wire[k] :
        wire[k][i].id # 0 => wire[k][i].of = k

-----------------------------------------------------------------------------
(* The client implements Outbox: it holds what is in its queues.           *)

Box == INSTANCE Outbox WITH
    MaxRequests <- MaxCalls, offered <- calls,
    held <- UNION {Ids(queue[k]) : k \in Tries},
    written <- [i \in 1 .. MaxCalls |-> Times(wire, i)]

\* No request is sent twice, whichever queues and tasks are left over.
AtMostOnce == Box!Spec

-----------------------------------------------------------------------------
(***************************************************************************)
(* Liveness.  The event loop runs the tasks that are ready in their order, *)
(* which is strong fairness of each task, since others run between.  What  *)
(* they await ends: dial, hello and write have timeouts, the library       *)
(* bounds the closing handshake, handlers return.  The properties need     *)
(* less than that, and it is what is assumed: weak fairness of the reading *)
(* together, strong fairness of everything else together, both of which    *)
(* follow from the fairness of each.  Nothing makes the application call   *)
(* or the connection fail.                                                 *)
(***************************************************************************)
Proceeds(a) ==
    \/ Starts(a) \/ Leaves(a) \/ Reported(a) \/ LoopInterrupted(a) \/ Exits(a)
    \/ CloseNext(a)

Fairness ==
    /\ WF_vars(\E k \in Tries : ReaderNext(k))
    /\ SF_vars(\/ AppNext
               \/ \E a \in Readers \cup Writers : Proceeds(a)
               \/ \E k \in Tries : Lost(k) \/ WriterNext(k))

FairSpec == Spec /\ Fairness

\* close returns, whatever the tasks are doing and whoever else is closing.
CloseReturns == pc[App] \in ClosePlaces ~> pc[App] = "idle"

\* A connection that has ended does not stay connected.
LossNoticed ==
    (connected /\ ws # 0 /\ link[ws] # "open") ~> (~connected \/ overlap)
=============================================================================
