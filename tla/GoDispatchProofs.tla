-------------------------- MODULE GoDispatchProofs --------------------------
(***************************************************************************)
(* Proofs about the dispatcher, for any writers, any of the events and any *)
(* codes of error frames.                                                  *)
(***************************************************************************)
EXTENDS GoDispatchProps, SequenceTheorems, TLAPS

-----------------------------------------------------------------------------
(* Errors.                                                                 *)

USE DEF ErrorUnknown, ErrorUnsupportedVersion, ErrorInternalServer,
        ErrorConnection, ErrorDisconnected, ErrorInvalidConfig,
        ErrorSerialization, ErrorCode, Plain

LEMMA ConcatOnes ==
    ASSUME NEW s \in Seq(Nat), NEW t \in Seq(Nat), Len(s) = 1, Len(t) = 1
    PROVE  s \o t = <<s[1], t[1]>>
  <1> DEFINE u == <<s[1], t[1]>>
  <1>1. /\ s \o t \in Seq(Nat)
        /\ Len(s \o t) = Len(s) + Len(t)
        /\ \A i \in 1 .. Len(s) + Len(t) :
              (s \o t)[i] = IF i <= Len(s) THEN s[i] ELSE t[i - Len(s)]
    BY ConcatProperties
  <1>2. u \in Seq(Nat) /\ Len(u) = 2 /\ u[1] = s[1] /\ u[2] = t[1]
    OBVIOUS
  <1> HIDE DEF u
  <1>3. Len(s \o t) = Len(u) /\ \A i \in 1 .. Len(s \o t) : (s \o t)[i] = u[i]
    BY <1>1, <1>2
  <1>4. s \o t = u
    BY <1>1, <1>2, <1>3, SeqEqual
  <1>5. QED
    BY <1>4 DEF u

LEMMA WrapErrorIs ==
    ASSUME NEW c \in ErrorCode PROVE WrapError(c, <<Plain>>) = <<c, Plain>>
  <1>1. /\ <<c>> \in Seq(Nat) /\ Len(<<c>>) = 1 /\ <<c>>[1] = c
        /\ <<Plain>> \in Seq(Nat) /\ Len(<<Plain>>) = 1 /\ <<Plain>>[1] = Plain
    OBVIOUS
  <1>2. QED
    BY <1>1, ConcatOnes, Zenon DEF WrapError

\* Whatever string a server sends is a code of the protocol, or unknown.
LEMMA ParseErrorCodeIs ==
    ASSUME NEW code PROVE ParseErrorCode(code) \in 0 .. 10
  BY DEF ParseErrorCode, Parsed

\* The two tables of errors.go agree: ParseErrorCode reads the name that
\* String writes, for each code of the protocol, and no name of another code.
THEOREM NamesParse ==
    ASSUME NEW e \in ErrorCode
    PROVE  ParseErrorCode(Names[e + 1]) =
               IF e <= ErrorInternalServer THEN e ELSE ErrorUnknown
  BY DEF ParseErrorCode, Parsed, Names

-----------------------------------------------------------------------------
(* Items, and the calls that they justify.                                 *)

\* A call is for the item, or for the event that an error frame names too.
Told(i, c) ==
    \/ c \in Wanted(i)
    \/ /\ i[1] = "Dispatch" /\ i[2].event \in Events
       /\ c = EventCall(i[2])

LEMMA ItemKinds ==
    ASSUME NEW i \in Items
    PROVE  \/ i[1] = "Dispatch" /\ i[2] \in Outbound
           \/ i[1] = "fireError" /\ i[2] \in LoopErrors
           \/ i[1] = "fireStateChange"
  BY DEF Items

LEMMA ItemsOfItems ==
    ASSUME NEW g \in Goroutines, NEW i \in ItemsOf(g) PROVE i \in Items
  <1>1. WriteError \in Outbound
    BY DEF WriteError, Outbound
  <1>2. QED
    BY <1>1 DEF ItemsOf, Items

LEMMA OneWanted ==
    ASSUME NEW i, NEW c \in Wanted(i) PROVE Wanted(i) = {c}
  BY DEF Wanted

LEMMA ErrorTypes ==
    ASSUME NEW c \in ErrorCode
    PROVE  <<>> \in Errors /\ <<c>> \in Errors /\ <<c, Plain>> \in Errors
  BY DEF Errors

LEMMA CallTypes ==
    ASSUME NEW f \in Fields, NEW e \in Errors PROVE Call(f, e) \in Calls
  BY DEF Call, Calls

LEMMA ErrorsReported ==
    /\ \A code : FromProtocolError(code) \in Errors
    /\ LoopErrors \subseteq Errors
    /\ <<>> \in Errors
    /\ WrapError(ErrorSerialization, <<Plain>>) \in Errors
  <1>1. \A c \in ErrorCode : NewError(c) \in Errors
    BY ErrorTypes DEF NewError
  <1>2. \A c \in ErrorCode : WrapError(c, <<Plain>>) \in Errors
    BY ErrorTypes, WrapErrorIs, Zenon
  <1>3. \A code : ParseErrorCode(code) \in ErrorCode
    BY ParseErrorCodeIs
  <1>4. /\ ErrorConnection \in ErrorCode /\ ErrorInvalidConfig \in ErrorCode
        /\ ErrorDisconnected \in ErrorCode /\ ErrorSerialization \in ErrorCode
    OBVIOUS
  <1>5. <<>> \in Errors
    BY DEF Errors
  <1> HIDE DEF ErrorConnection, ErrorInvalidConfig, ErrorDisconnected,
               ErrorSerialization, ErrorCode, Plain
  <1>6. QED
    BY <1>1, <1>2, <1>3, <1>4, <1>5, Zenon DEF LoopErrors, FromProtocolError

\* Every call the dispatcher makes has a field and an error of its type.
LEMMA ToldIsCall ==
    ASSUME NEW i \in Items, NEW c, Told(i, c) PROVE c \in Calls
  <1>1. Events \subseteq Fields /\ "error" \in Fields /\ "state" \in Fields
    BY DEF Fields
  <1>2. ASSUME i[2].event \in Events PROVE EventCall(i[2]) \in Calls
    BY <1>1, <1>2, ErrorsReported, CallTypes, Zenon DEF EventCall
  <1>3. Call("error", FromProtocolError(i[2].error)) \in Calls
    BY <1>1, ErrorsReported, CallTypes, Zenon
  <1>4. \A e \in LoopErrors : Call("error", e) \in Calls
    BY <1>1, ErrorsReported, CallTypes, Zenon
  <1>5. Call("state", <<>>) \in Calls
    BY <1>1, ErrorsReported, CallTypes, Zenon
  <1>6. QED
    BY <1>2, <1>3, <1>4, <1>5, ItemKinds DEF Told, Wanted, TellsError

-----------------------------------------------------------------------------
(***************************************************************************)
(* The inductive invariant.  A goroutine that goes to the switch with an   *)
(* error frame has found no error callback, so this field has lapsed; one  *)
(* that has nothing to tell has found a field that it needs to be nil.     *)
(***************************************************************************)
Justified(g, c) ==
    \/ c \in Wanted(hand[g])
    \/ /\ hand[g][1] = "Dispatch" /\ "error" \in lapsed[g]
       /\ Frame(g).event \in Events /\ c = EventCall(Frame(g))

Types ==
    /\ registered \in SUBSET Fields
    /\ pc \in [Goroutines -> {"idle", "route", "switch", "fire", "call", "return"}]
    /\ hand \in [Goroutines -> Items \cup {NoItem}]
    /\ DOMAIN due = Goroutines /\ DOMAIN told = Goroutines
    /\ lapsed \in [Goroutines -> SUBSET Fields]
    /\ crashed \in BOOLEAN /\ unsafe \in BOOLEAN

InHand(g) ==
    IF pc[g] = "idle" THEN hand[g] = NoItem
                      ELSE hand[g] \in ItemsOf(g) /\ Fields \ registered \subseteq lapsed[g]

InRoute(g) ==
    /\ pc[g] \in {"route", "switch"} => hand[g][1] = "Dispatch"
    /\ pc[g] = "switch" /\ TellsError(Frame(g)) => "error" \in lapsed[g]

InCall(g) ==
    /\ pc[g] \in {"fire", "call"} => Justified(g, due[g])
    /\ pc[g] = "call" /\ ~unsafe => due[g].field \in registered

AtReturn(g) ==
    /\ pc[g] # "return" => told[g] = <<>>
    /\ pc[g] = "return" =>
          \/ told[g] = <<due[g]>> /\ Justified(g, due[g])
          \/ /\ told[g] = <<>>
             /\ \/ crashed \/ Wanted(hand[g]) = {}
                \/ Needed(hand[g]) \cap lapsed[g] # {}

DispatchInv(g) == InHand(g) /\ InRoute(g) /\ InCall(g) /\ AtReturn(g)

IInv == Types /\ PanicTakesRemoval /\ \A g \in Goroutines : DispatchInv(g)

LEMMA InitInv == Init => IInv
  <1>1. Init => Types
    BY DEF Init, Types
  <1>2. Init => PanicTakesRemoval
    BY DEF Init, PanicTakesRemoval
  <1>3. Init => \A g \in Goroutines : DispatchInv(g)
    BY DEF Init, DispatchInv, InHand, InRoute, InCall, AtReturn
  <1>4. QED
    BY <1>1, <1>2, <1>3 DEF IInv

(***************************************************************************)
(* What a goroutine does in the dispatcher.                                *)
(***************************************************************************)
LEMMA TypesStep ==
    ASSUME Types, NEW g \in Goroutines, Deliver(g) PROVE Types'
  <1>1. ASSUME NEW i \in ItemsOf(g), Begins(g, i) PROVE Types'
    <2>1. i \in Items
      BY ItemsOfItems
    <2>2. QED
      BY <1>1, <2>1 DEF Begins, Step, Types
  <1>2. CASE RouteError(g) \/ RouteOther(g) \/ Ignore(g) \/ SwitchEvent(g)
    BY <1>2 DEF RouteError, RouteOther, Ignore, SwitchEvent, Step, Types
  <1>3. CASE UnmarshalFails(g) \/ Fire(g) \/ FireNobody(g)
    BY <1>3 DEF UnmarshalFails, Fire, FireNobody, Step, Types
  <1>4. CASE MakeCall(g)
    BY <1>4 DEF MakeCall, Step, Types
  <1>5. CASE Return(g)
    BY <1>5 DEF Return, Step, Types
  <1>6. QED
    BY <1>1, <1>2, <1>3, <1>4, <1>5 DEF Deliver

\* A nil callback is called only after a removal in the wrong moment.
LEMMA PanicStep ==
    ASSUME IInv, NEW g \in Goroutines, Deliver(g) PROVE PanicTakesRemoval'
  <1>1. CASE MakeCall(g)
    BY <1>1 DEF MakeCall, Step, IInv, Types, DispatchInv, InCall, PanicTakesRemoval
  <1>2. CASE ~MakeCall(g)
    BY <1>2 DEF Deliver, Begins, RouteError, RouteOther, Ignore, SwitchEvent,
        UnmarshalFails, Fire, FireNobody, Return, Step, IInv, PanicTakesRemoval
  <1>3. QED
    BY <1>1, <1>2

\* The other goroutines keep what they have.
LEMMA OthersKeep ==
    ASSUME Types, NEW g \in Goroutines, Deliver(g), NEW h \in Goroutines, h # g
    PROVE  /\ UNCHANGED <<registered, unsafe>>
           /\ crashed => crashed'
           /\ pc'[h] = pc[h] /\ hand'[h] = hand[h] /\ due'[h] = due[h]
           /\ told'[h] = told[h] /\ lapsed'[h] = lapsed[h]
  <1>1. CASE \E i \in ItemsOf(g) : Begins(g, i)
    BY <1>1 DEF Begins, Step, Types
  <1>2. CASE RouteError(g) \/ RouteOther(g) \/ Ignore(g) \/ SwitchEvent(g)
    BY <1>2 DEF RouteError, RouteOther, Ignore, SwitchEvent, Step, Types
  <1>3. CASE UnmarshalFails(g) \/ Fire(g) \/ FireNobody(g)
    BY <1>3 DEF UnmarshalFails, Fire, FireNobody, Step, Types
  <1>4. CASE MakeCall(g) \/ Return(g)
    BY <1>4 DEF MakeCall, Return, Step, Types
  <1>5. QED
    BY <1>1, <1>2, <1>3, <1>4 DEF Deliver

LEMMA OthersStep ==
    ASSUME IInv, NEW g \in Goroutines, Deliver(g), NEW h \in Goroutines, h # g
    PROVE  DispatchInv(h)'
  <1>1. DispatchInv(h) /\ Types
    BY DEF IInv
  <1>2. QED
    BY <1>1, OthersKeep DEF DispatchInv, InHand, InRoute, InCall, AtReturn,
        Justified, Frame

\* What is justified is a call to a field that the item needs.
LEMMA JustifiedNeeds ==
    ASSUME NEW g \in Goroutines, hand[g] \in Items, Justified(g, due[g]),
           due[g].field \in lapsed[g]
    PROVE  Needed(hand[g]) \cap lapsed[g] # {}
  <1>1. CASE due[g] \in Wanted(hand[g])
    BY <1>1 DEF Needed
  <1>2. CASE /\ due[g] \notin Wanted(hand[g])
             /\ hand[g][1] = "Dispatch" /\ "error" \in lapsed[g]
             /\ Frame(g).event \in Events /\ due[g] = EventCall(Frame(g))
    <2>1. TellsError(hand[g][2])
      BY <1>2 DEF Wanted, Frame
    <2>2. Call("error", FromProtocolError(hand[g][2].error)) \in Wanted(hand[g])
      BY <1>2, <2>1 DEF Wanted
    <2>3. "error" \in Needed(hand[g])
      BY <2>2 DEF Needed, Call
    <2>4. QED
      BY <1>2, <2>3
  <1>3. QED
    BY <1>1, <1>2 DEF Justified

LEMMA MoverStep ==
    ASSUME IInv, NEW g \in Goroutines, Deliver(g) PROVE DispatchInv(g)'
  <1>0. Types /\ DispatchInv(g)
    BY DEF IInv
  <1> USE DEF DispatchInv, InHand, InRoute, InCall, AtReturn
  <1>1. ASSUME NEW i \in ItemsOf(g), Begins(g, i) PROVE DispatchInv(g)'
    <2>1. i \in Items
      BY ItemsOfItems
    <2>2. /\ pc'[g] = IF i[1] = "Dispatch" THEN "route" ELSE "fire"
          /\ hand'[g] = i /\ lapsed'[g] = Fields \ registered
          /\ told'[g] = <<>> /\ registered' = registered
      BY <1>0, <1>1 DEF Begins, Step, Types
    <2>3. i[1] # "Dispatch" => Justified(g, due[g])'
      <3>1. CASE i[1] = "fireError"
        BY <1>0, <1>1, <2>2, <3>1 DEF Begins, Types, Justified, Wanted
      <3>2. CASE i[1] = "fireStateChange"
        BY <1>0, <1>1, <2>2, <3>2 DEF Begins, Types, Justified, Wanted
      <3>3. QED
        BY <2>1, <3>1, <3>2, ItemKinds
    <2>4. QED
      BY <2>2, <2>3
  <1>2. CASE RouteError(g)
    <2>1. TellsError(Frame(g))
      BY <1>2 DEF RouteError, IsError, TellsError
    <2>2. /\ UNCHANGED <<hand, lapsed, told, registered>> /\ pc'[g] = "call"
          /\ due'[g] = Call("error", FromProtocolError(Frame(g).error))
          /\ pc[g] = "route" /\ "error" \in registered
      BY <1>0, <1>2 DEF RouteError, Step, Types, IsError
    <2>3. due'[g] \in Wanted(hand[g])
      BY <1>0, <2>1, <2>2 DEF Wanted, Frame
    <2>4. QED
      BY <1>0, <2>2, <2>3 DEF Justified, Call
  <1>3. CASE RouteOther(g)
    BY <1>0, <1>3 DEF RouteOther, Step, Types, IsError, TellsError, Frame, Fields
  <1>4. CASE Ignore(g)
    <2>1. /\ UNCHANGED <<hand, lapsed, told, registered>> /\ pc'[g] = "return"
          /\ pc[g] = "switch" /\ Frame(g).event \notin registered \cap Events
      BY <1>0, <1>4 DEF Ignore, Step, Types
    <2>2. Wanted(hand[g]) = {} \/ Needed(hand[g]) \cap lapsed[g] # {}
      <3>1. CASE TellsError(Frame(g))
        BY <1>0, <2>1, <3>1 DEF Needed, Wanted, Frame, Call
      <3>2. CASE ~TellsError(Frame(g)) /\ Frame(g).event \in Events
        BY <1>0, <2>1, <3>2 DEF Needed, Frame, Fields
      <3>3. CASE ~TellsError(Frame(g)) /\ Frame(g).event \notin Events
        BY <1>0, <2>1, <3>3 DEF Wanted, Frame
      <3>4. QED
        BY <3>1, <3>2, <3>3
    <2>3. QED
      BY <1>0, <2>1, <2>2
  <1>5. CASE SwitchEvent(g) \/ UnmarshalFails(g)
    <2>1. /\ UNCHANGED <<hand, lapsed, told, registered>>
          /\ pc'[g] \in {"fire", "call"}
          /\ pc[g] = "switch" /\ Frame(g).event \in registered \cap Events
          /\ due'[g] = EventCall(Frame(g))
          /\ pc'[g] = "call" => due'[g].field = Frame(g).event
      BY <1>0, <1>5 DEF SwitchEvent, UnmarshalFails, Step, Types, EventCall, Call
    <2>2. Justified(g, due[g])'
      BY <1>0, <2>1 DEF Justified, Wanted, Frame
    <2>3. QED
      BY <1>0, <2>1, <2>2
  <1>6. CASE Fire(g)
    BY <1>0, <1>6 DEF Fire, Step, Types, Justified, Frame
  <1>7. CASE FireNobody(g)
    <2>1. /\ UNCHANGED <<hand, lapsed, told, registered, due>>
          /\ pc'[g] = "return" /\ pc[g] = "fire" /\ due[g].field \notin registered
      BY <1>0, <1>7 DEF FireNobody, Step, Types
    <2>2. hand[g] \in Items
      BY <1>0, <2>1, ItemsOfItems
    <2>3. due[g] \in Calls
      BY <1>0, <2>1, <2>2, ToldIsCall DEF Justified, Told, Frame
    <2>4. due[g].field \in lapsed[g]
      BY <1>0, <2>1, <2>3 DEF Calls
    <2>5. QED
      BY <1>0, <2>1, <2>2, <2>4, JustifiedNeeds
  <1>8. CASE MakeCall(g)
    <2>1. /\ UNCHANGED <<hand, lapsed, registered, due>>
          /\ pc'[g] = "return" /\ pc[g] = "call"
          /\ \/ told'[g] = Append(told[g], due[g])
             \/ crashed' /\ told'[g] = told[g]
      BY <1>0, <1>8 DEF MakeCall, Step, Types
    <2>2. QED
      BY <1>0, <2>1 DEF Justified, Frame
  <1>9. CASE Return(g)
    BY <1>0, <1>9 DEF Return, Step, Types
  <1>10. QED
    BY <1>1, <1>2, <1>3, <1>4, <1>5, <1>6, <1>7, <1>8, <1>9 DEF Deliver

-----------------------------------------------------------------------------
(* Registration.                                                           *)

LEMMA RegisterStep ==
    ASSUME IInv, NEW f \in Fields, Register(f) PROVE IInv'
  <1>1. Types' /\ PanicTakesRemoval'
    BY DEF IInv, Register, Types, PanicTakesRemoval
  <1>2. ASSUME NEW g \in Goroutines PROVE DispatchInv(g)'
    BY DEF IInv, Register, DispatchInv, InHand, InRoute, InCall, AtReturn,
        Justified, Frame
  <1>3. QED
    BY <1>1, <1>2 DEF IInv

LEMMA RemoveStep ==
    ASSUME IInv, NEW f \in Fields, Remove(f) PROVE IInv'
  <1>1. Types'
    <2>1. unsafe' \in BOOLEAN
      BY Zenon DEF Remove
    <2>2. QED
      BY <2>1 DEF IInv, Remove, Types
  <1>2. unsafe => unsafe'
    BY DEF Remove
  <1>3. PanicTakesRemoval'
    BY <1>2 DEF IInv, Remove, PanicTakesRemoval
  <1>4. ASSUME NEW g \in Goroutines PROVE DispatchInv(g)'
    <2>1. /\ UNCHANGED <<pc, hand, due, told, crashed>>
          /\ registered' = registered \ {f}
          /\ pc[g] # "idle" => lapsed'[g] = lapsed[g] \cup {f}
      BY DEF IInv, Types, Remove
    <2>2. pc[g] = "call" /\ due[g].field = f => unsafe'
      BY DEF Remove
    <2>3. DispatchInv(g)
      BY DEF IInv
    <2>4. QED
      BY <1>2, <2>1, <2>2, <2>3 DEF DispatchInv, InHand, InRoute, InCall,
          AtReturn, Justified, Frame
  <1>5. QED
    BY <1>1, <1>3, <1>4 DEF IInv

THEOREM DispatchInvariance == Spec => []IInv
  <1>1. IInv /\ [Next]_vars => IInv'
    <2>1. ASSUME IInv, NEW g \in Goroutines, Deliver(g) PROVE IInv'
      <3>1. Types'
        BY <2>1, TypesStep DEF IInv
      <3>2. PanicTakesRemoval'
        BY <2>1, PanicStep
      <3>3. \A h \in Goroutines : DispatchInv(h)'
        BY <2>1, MoverStep, OthersStep
      <3>4. QED
        BY <3>1, <3>2, <3>3 DEF IInv
    <2>2. ASSUME IInv, UNCHANGED vars PROVE IInv'
      BY <2>2 DEF vars, IInv, Types, PanicTakesRemoval, DispatchInv, InHand,
          InRoute, InCall, AtReturn, Justified, Frame
    <2>3. QED
      BY <2>1, <2>2, RegisterStep, RemoveStep DEF Next
  <1>2. QED
    BY InitInv, <1>1, PTL DEF Spec

-----------------------------------------------------------------------------
(* The properties.                                                         *)

\* Where something was told, it was told once and justified.
LEMMA ToldIsJustified ==
    ASSUME IInv, NEW g \in Goroutines, told[g] # <<>>
    PROVE  /\ pc[g] = "return" /\ hand[g] \in Items
           /\ told[g] = <<due[g]>> /\ Justified(g, due[g])
  BY ItemsOfItems DEF IInv, DispatchInv, InHand, AtReturn

\* A single call is a sequence of calls.
LEMMA OneCall == ASSUME NEW S, NEW x \in S PROVE <<x>> \in Seq(S)
  OBVIOUS

\* The types of the dispatcher's variables.
THEOREM DispatchTypes == Spec => []TypeOK
  <1>1. ASSUME IInv PROVE TypeOK
    <2>1. ASSUME NEW g \in Goroutines
          PROVE  /\ hand[g] \in ItemsOf(g) \/ (pc[g] = "idle" /\ hand[g] = NoItem)
                 /\ pc[g] \in {"fire", "call"} => due[g] \in Calls
                 /\ told[g] \in Seq(Calls)
      <3>1. hand[g] \in ItemsOf(g) \/ (pc[g] = "idle" /\ hand[g] = NoItem)
        BY <1>1 DEF IInv, DispatchInv, InHand
      <3>2. Justified(g, due[g]) /\ hand[g] \in Items => due[g] \in Calls
        BY ToldIsCall DEF Justified, Told, Frame
      <3>3. pc[g] \in {"fire", "call"} => due[g] \in Calls
        BY <1>1, <3>1, <3>2, ItemsOfItems DEF IInv, DispatchInv, InCall
      <3>4. told[g] \in Seq(Calls)
        <4>1. CASE told[g] = <<>>
          BY <4>1
        <4>2. CASE told[g] # <<>>
          <5>1. /\ hand[g] \in Items /\ Justified(g, due[g])
                /\ told[g] = <<due[g]>>
            BY <1>1, <4>2, ToldIsJustified
          <5>2. QED
            BY <3>2, <5>1, OneCall
        <4>3. QED
          BY <4>1, <4>2
      <3>5. QED
        BY <3>1, <3>3, <3>4
    <2>2. QED
      BY <1>1, <2>1 DEF IInv, Types, TypeOK
  <1>2. QED
    BY <1>1, DispatchInvariance, PTL

\* Only a removal between its test and its call makes a nil callback be called.
THEOREM PanicsOnlyByRemoval == Spec => []PanicTakesRemoval
  <1>1. IInv => PanicTakesRemoval
    BY DEF IInv
  <1>2. QED
    BY <1>1, DispatchInvariance, PTL

\* What is delivered reaches its callback, exactly once.
THEOREM EverythingHeardOnce == Spec => []HeardOnce
  <1>1. ASSUME IInv, NEW g \in Goroutines, pc[g] = "return", ~crashed,
               Needed(hand[g]) \cap lapsed[g] = {}
        PROVE  /\ Len(told[g]) <= 1
               /\ {told[g][k] : k \in DOMAIN told[g]} = Wanted(hand[g])
    <2>1. CASE told[g] = <<>>
      BY <1>1, <2>1 DEF IInv, DispatchInv, AtReturn
    <2>2. CASE told[g] # <<>>
      <3>1. told[g] = <<due[g]>> /\ Justified(g, due[g])
        BY <1>1, <2>2, ToldIsJustified
      <3>2. due[g] \in Wanted(hand[g])
        <4>1. CASE /\ hand[g][1] = "Dispatch" /\ "error" \in lapsed[g]
                   /\ Frame(g).event \in Events /\ due[g] = EventCall(Frame(g))
          <5>1. CASE TellsError(Frame(g))
            BY <1>1, <4>1, <5>1 DEF Needed, Wanted, Frame, Call
          <5>2. CASE ~TellsError(Frame(g))
            BY <4>1, <5>2 DEF Wanted, Frame
          <5>3. QED
            BY <5>1, <5>2
        <4>2. QED
          BY <3>1, <4>1 DEF Justified
      <3>3. {told[g][k] : k \in DOMAIN told[g]} = {due[g]}
        BY <3>1
      <3>4. QED
        BY <3>1, <3>2, <3>3, OneWanted
    <2>3. QED
      BY <2>1, <2>2
  <1>2. IInv => HeardOnce
    BY <1>1 DEF HeardOnce
  <1>3. QED
    BY <1>2, DispatchInvariance, PTL

\* No callback hears anything but its own.
THEOREM NothingElseHeard == Spec => []NothingElse
  <1>1. ASSUME IInv, NEW g \in Goroutines, told[g] # <<>>
        PROVE  /\ Len(told[g]) = 1
               /\ \/ told[g][1] \in Wanted(hand[g])
                  \/ /\ hand[g][1] = "Dispatch" /\ "error" \in lapsed[g]
                     /\ Frame(g).event \in Events
                     /\ told[g][1] = EventCall(Frame(g))
    <2>1. told[g] = <<due[g]>> /\ Justified(g, due[g])
      BY <1>1, ToldIsJustified
    <2>2. Len(told[g]) = 1 /\ told[g][1] = due[g]
      BY <2>1
    <2>3. QED
      BY <2>1, <2>2 DEF Justified
  <1>2. IInv => NothingElse
    BY <1>1, Zenon DEF NothingElse
  <1>3. QED
    BY <1>2, DispatchInvariance, PTL
=============================================================================
