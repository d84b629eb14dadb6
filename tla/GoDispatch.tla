----------------------------- MODULE GoDispatch -----------------------------
(***************************************************************************)
(* The dispatcher of the Go SDK (wirechat-sdk-go/wirechat/dispatcher.go):  *)
(* the reader, the writers and the application's own Connect and Close     *)
(* call callbacks, while the application registers and removes them.       *)
(* NoCall locks the fields of Dispatcher: each is read once to see whether*)
(* there is a callback, and again to call it.                              *)
(***************************************************************************)
EXTENDS GoErrors

CONSTANTS
    Writers,        \* writer goroutines
    Events,         \* the events with a callback: message, history, ...
    ErrorNames      \* codes of error frames, known to the client or not

ASSUME WritersAssumption == Writers \cap {"reader", "app"} = {}
ASSUME EventsAssumption ==
    Events \subseteq {"message", "user_joined", "user_left", "history"}
ASSUME NamesAssumption == "none" \notin ErrorNames

VARIABLES
    registered,     \* the fields of Dispatcher that are not nil
    pc,             \* the place of each goroutine in the dispatcher
    hand,           \* what it delivers
    due,            \* the call it is about to make
    told,           \* the calls it has made for what it delivers
    lapsed,         \* the fields that were nil at some time since it began
    crashed,        \* a nil function was called: the program is gone
    unsafe          \* a callback was removed between its test and its call

vars == <<registered, pc, hand, due, told, lapsed, crashed, unsafe>>

Goroutines == {"reader", "app"} \cup Writers

Fields == Events \cup {"error", "state"}

(***************************************************************************)
(* What is delivered: a frame given to Dispatch, an error to fireError, or *)
(* a transition to fireStateChange.  Outbound: an event that the SDK does  *)
(* not know is "none", and so is a missing error; data tells whether the   *)
(* payload can be unmarshalled.                                            *)
(***************************************************************************)
Outbound ==
    {f \in [type : {"event", "error"}, event : Events \cup {"none"},
            error : ErrorNames \cup {"none", "write_error"}, data : BOOLEAN] :
        f.event = "none" => ~f.data}

\* What readLoop and reconnect report themselves.
LoopErrors == {WrapError(ErrorConnection, <<Plain>>),
               WrapError(ErrorInvalidConfig, <<Plain>>),
               NewError(ErrorDisconnected)}

WriteError == [type |-> "error", event |-> "none", error |-> "write_error",
               data |-> FALSE]

Items == ({"Dispatch"} \X Outbound) \cup ({"fireError"} \X LoopErrors)
             \cup {<<"fireStateChange", "none">>}

ItemsOf(g) ==
    CASE g = "reader" -> {i \in Items : i[1] = "Dispatch"
                                            => i[2].error # "write_error"}
      [] g = "app" -> {<<"fireStateChange", "none">>}
      [] OTHER -> {<<"Dispatch", WriteError>>}

Call(field, err) == [field |-> field, err |-> err]
NoCall == Call("none", <<>>)
NoItem == <<"none", "none">>

Init ==
    /\ registered = {}
    /\ pc = [g \in Goroutines |-> "idle"]
    /\ hand = [g \in Goroutines |-> NoItem]
    /\ due = [g \in Goroutines |-> NoCall]
    /\ told = [g \in Goroutines |-> <<>>]
    /\ lapsed = [g \in Goroutines |-> {}]
    /\ crashed = FALSE /\ unsafe = FALSE

-----------------------------------------------------------------------------
(* Delivery.                                                               *)

Step(g, from, to) ==
    /\ ~crashed /\ pc[g] = from
    /\ pc' = [pc EXCEPT ![g] = to]
    /\ UNCHANGED <<registered, unsafe>>

Frame(g) == hand[g][2]

Begins(g, i) ==
    /\ Step(g, "idle", IF i[1] = "Dispatch" THEN "route" ELSE "fire")
    /\ hand' = [hand EXCEPT ![g] = i]
    /\ due' = [due EXCEPT ![g] = CASE i[1] = "fireError" -> Call("error", i[2])
                                   [] i[1] = "fireStateChange" -> Call("state", <<>>)
                                   [] OTHER -> NoCall]
    /\ lapsed' = [lapsed EXCEPT ![g] = Fields \ registered]
    /\ UNCHANGED <<told, crashed>>

\* An error frame, and somebody to tell.
IsError(g) ==
    Frame(g).type = "error" /\ Frame(g).error # "none" /\ "error" \in registered

RouteError(g) ==
    /\ Step(g, "route", "call") /\ IsError(g)
    /\ due' = [due EXCEPT ![g] = Call("error", FromProtocolError(Frame(g).error))]
    /\ UNCHANGED <<hand, told, lapsed, crashed>>

\* Any other frame goes on to the switch, whatever its type.
RouteOther(g) ==
    /\ Step(g, "route", "switch") /\ ~IsError(g)
    /\ UNCHANGED <<hand, due, told, lapsed, crashed>>

\* No callback for the event: the payload is not even looked at.
Ignore(g) ==
    /\ Step(g, "switch", "return") /\ Frame(g).event \notin registered \cap Events
    /\ UNCHANGED <<hand, due, told, lapsed, crashed>>

SwitchEvent(g) ==
    /\ Step(g, "switch", "call") /\ Frame(g).event \in registered \cap Events
    /\ Frame(g).data
    /\ due' = [due EXCEPT ![g] = Call(Frame(g).event, <<>>)]
    /\ UNCHANGED <<hand, told, lapsed, crashed>>

\* Mutant: the result of Unmarshal is ignored.
UnmarshalUnchecked(g) ==
    /\ Step(g, "switch", "call") /\ Frame(g).event \in registered \cap Events
    /\ ~Frame(g).data
    /\ due' = [due EXCEPT ![g] = Call(Frame(g).event, <<>>)]
    /\ UNCHANGED <<hand, told, lapsed, crashed>>

UnmarshalFails(g) ==
    /\ Step(g, "switch", "fire") /\ Frame(g).event \in registered \cap Events
    /\ ~Frame(g).data
    /\ due' = [due EXCEPT ![g] =
                  Call("error", WrapError(ErrorSerialization, <<Plain>>))]
    /\ UNCHANGED <<hand, told, lapsed, crashed>>

\* Mutant: the test for nil is missing.
FireUntested(g) ==
    /\ Step(g, "fire", "call")
    /\ UNCHANGED <<hand, due, told, lapsed, crashed>>

\* fireError and fireStateChange test the field they are about to call.
Fire(g) ==
    /\ Step(g, "fire", "call") /\ due[g].field \in registered
    /\ UNCHANGED <<hand, due, told, lapsed, crashed>>

FireNobody(g) ==
    /\ Step(g, "fire", "return") /\ due[g].field \notin registered
    /\ UNCHANGED <<hand, due, told, lapsed, crashed>>

\* Mutant: the return after the error callback is missing.
CallFallsThrough(g) ==
    /\ Step(g, "call", IF hand[g][1] = "Dispatch" /\ due[g].field = "error"
                       THEN "switch" ELSE "return")
    /\ IF due[g].field \in registered
       THEN told' = [told EXCEPT ![g] = Append(@, due[g])] /\ UNCHANGED crashed
       ELSE crashed' = TRUE /\ UNCHANGED told
    /\ UNCHANGED <<hand, due, lapsed>>

\* The field is read again: what was removed meanwhile is called as nil.
MakeCall(g) ==
    /\ Step(g, "call", "return")
    /\ IF due[g].field \in registered
       THEN told' = [told EXCEPT ![g] = Append(@, due[g])] /\ UNCHANGED crashed
       ELSE crashed' = TRUE /\ UNCHANGED told
    /\ UNCHANGED <<hand, due, lapsed>>

Return(g) ==
    /\ Step(g, "return", "idle")
    /\ hand' = [hand EXCEPT ![g] = NoItem]
    /\ due' = [due EXCEPT ![g] = NoCall]
    /\ told' = [told EXCEPT ![g] = <<>>]
    /\ lapsed' = [lapsed EXCEPT ![g] = {}]
    /\ UNCHANGED crashed

-----------------------------------------------------------------------------
(* Registration, by any goroutine at any time.                             *)

Register(f) ==
    /\ ~crashed
    /\ registered' = registered \cup {f}
    /\ UNCHANGED <<pc, hand, due, told, lapsed, crashed, unsafe>>

\* The setters take nil as well.
Remove(f) ==
    /\ ~crashed
    /\ registered' = registered \ {f}
    /\ lapsed' = [g \in Goroutines |->
                     IF pc[g] = "idle" THEN {} ELSE lapsed[g] \cup {f}]
    /\ unsafe' = (unsafe \/ \E g \in Goroutines :
                                pc[g] = "call" /\ due[g].field = f)
    /\ UNCHANGED <<pc, hand, due, told, crashed>>

-----------------------------------------------------------------------------
Deliver(g) ==
    \/ \E i \in ItemsOf(g) : Begins(g, i)
    \/ RouteError(g) \/ RouteOther(g) \/ Ignore(g) \/ SwitchEvent(g)
    \/ UnmarshalFails(g) \/ Fire(g) \/ FireNobody(g) \/ MakeCall(g) \/ Return(g)

Next ==
    \/ \E g \in Goroutines : Deliver(g)
    \/ \E f \in Fields : Register(f) \/ Remove(f)

Spec == Init /\ [][Next]_vars
=============================================================================
