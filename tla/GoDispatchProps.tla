-------------------------- MODULE GoDispatchProps ---------------------------
(***************************************************************************)
(* What an application may expect of its callbacks.                        *)
(***************************************************************************)
EXTENDS GoDispatch

(***************************************************************************)
(* Types.  A goroutine that is about to call has a field to call.          *)
(***************************************************************************)
Calls == [field : Fields, err : Errors]

TypeOK ==
    /\ registered \in SUBSET Fields
    /\ pc \in [Goroutines -> {"idle", "route", "switch", "fire", "call", "return"}]
    /\ \A g \in Goroutines :
          /\ hand[g] \in ItemsOf(g) \/ (pc[g] = "idle" /\ hand[g] = NoItem)
          /\ pc[g] \in {"fire", "call"} => due[g] \in Calls
          /\ told[g] \in Seq(Calls)
    /\ lapsed \in [Goroutines -> SUBSET Fields]
    /\ crashed \in BOOLEAN /\ unsafe \in BOOLEAN

(***************************************************************************)
(* The call that an item is for, and the fields it needs.  A payload that  *)
(* cannot be unmarshalled is reported only where the event has a callback. *)
(***************************************************************************)
TellsError(f) == f.type = "error" /\ f.error # "none"

EventCall(f) ==
    IF f.data THEN Call(f.event, <<>>)
              ELSE Call("error", WrapError(ErrorSerialization, <<Plain>>))

Wanted(i) ==
    CASE i[1] = "fireError" -> {Call("error", i[2])}
      [] i[1] = "fireStateChange" -> {Call("state", <<>>)}
      [] i[1] = "Dispatch" /\ TellsError(i[2]) ->
             {Call("error", FromProtocolError(i[2].error))}
      [] i[1] = "Dispatch" /\ ~TellsError(i[2]) /\ i[2].event \in Events ->
             {EventCall(i[2])}
      [] OTHER -> {}

Needed(i) ==
    {c.field : c \in Wanted(i)} \cup
        (IF i[1] = "Dispatch" /\ ~TellsError(i[2])
         THEN {i[2].event} \cap Events ELSE {})

\* An event, an error or a transition reaches its callback, exactly once, if
\* the callback is registered for as long as it is being delivered, whatever
\* other callbacks come and go and whatever other goroutines deliver.
HeardOnce ==
    \A g \in Goroutines :
        pc[g] = "return" /\ ~crashed /\ Needed(hand[g]) \cap lapsed[g] = {}
        => /\ Len(told[g]) <= 1
           /\ {told[g][k] : k \in DOMAIN told[g]} = Wanted(hand[g])

\* No callback hears anything but its own: also when callbacks come and go
\* there is at most one call, and it is for the event or the error in hand.
\* An error frame that nobody wants to hear may count as the event it names.
NothingElse ==
    \A g \in Goroutines : told[g] # <<>> =>
        /\ Len(told[g]) = 1
        /\ \/ told[g][1] \in Wanted(hand[g])
           \/ /\ hand[g][1] = "Dispatch" /\ "error" \in lapsed[g]
              /\ Frame(g).event \in Events
              /\ told[g][1] = EventCall(Frame(g))

\* The client dies of a nil callback only if the application removes a
\* callback in the moment between its test and its call.
PanicTakesRemoval == crashed => unsafe

-----------------------------------------------------------------------------
(***************************************************************************)
(* What the documentation says and the code does not do.                   *)
(***************************************************************************)

\* An error that the server sent is a protocol error ("Protocol errors are
\* those that come from the server"), also under a code that the client does
\* not know.
ServerErrorsAreProtocol ==
    \A g \in Goroutines : \A k \in DOMAIN told[g] :
        hand[g][1] = "Dispatch" /\ Frame(g).error # "write_error"
            /\ told[g][k] = Call("error", FromProtocolError(Frame(g).error))
        => IsProtocolError(told[g][k].err)
=============================================================================
