------------------------- MODULE GoReconnectProofs --------------------------
(***************************************************************************)
(* Proofs about the state events and the delays, for any configuration,    *)
(* any number of connections and any behaviour of the server: the events   *)
(* form a chain that ends in the state, for as long as the application has *)
(* not called Close, and the delays between the attempts to reconnect are  *)
(* the documented ones, for any width of a Duration.                       *)
(***************************************************************************)
EXTENDS GoReconnect, GoClientProofs

\* At most one event is on its way, from the state that the application
\* knows to the state of the client: while Connect delivers there is no
\* reader, and while the reader delivers there is no Connect.
OnItsWay(g) ==
    firing[g] # <<>> => /\ firing[g][1].OldState = known
                        /\ firing[g][1].NewState = state

EventInv ==
    /\ firing = [g \in Goroutines |-> firing[g]]
    /\ mpc \in {"closeState", "closeConn"} => closed
    /\ ~closed =>
          /\ OnItsWay("app") /\ OnItsWay("reader")
          /\ firing["app"] # <<>> => rpc = "off"
          /\ firing["reader"] # <<>> => rpc # "off"
          /\ firing["app"] = <<>> /\ firing["reader"] = <<>> => known = state

SeenInv == IInv /\ EventInv

-----------------------------------------------------------------------------
(* Steps of the client.                                                    *)

USE DEF vars, session, status, queues, net, app, reader, writers, callers,
        redial, resend

\* Every step is one of GoClient, or leaves GoClient alone.
LEMMA StepsOfClient == [ReconnectNext]_allVars => [Next]_vars
  BY DEF ReconnectNext, AppMoves, ReaderMoves, OthersMove, Fire, Next, allVars

LEMMA ClientStep == IInv /\ [ReconnectNext]_allVars => IInv'
  BY StepsOfClient, TypeStep, PhaseStep, HandStep, HelloStep, WriterInvStep,
     BufferStep, GivenUpStep DEF IInv

\* Connect and Close deliver every change that they make, and Connect makes
\* changes only while there is no reader.
LEMMA AppEvents ==
    ASSUME PhaseInv, AppNext, ~closed', mpc \in {"closeState", "closeConn"} => closed
    PROVE  /\ ~closed /\ rpc = "off"
           /\ ~AppSetsState => state' = state
           /\ AppSetsState => rpc' = "off"
           /\ mpc' \notin {"closeState", "closeConn"}
  BY DEF AppNext, ConnectNext, CloseNext, AppStep, AppSetsState, PhaseInv,
         ConnectCall, ConnectDialFails, ConnectDials, ConnectHello,
         ConnectHelloFails, ConnectUp, ConnectSetState, ConnectSpawn,
         Close, CloseSetState, CloseConn

\* Whatever they do, Close has been called before its second step.
LEMMA AppCloses ==
    ASSUME AppNext, mpc \in {"closeState", "closeConn"} => closed
    PROVE  mpc' \in {"closeState", "closeConn"} => closed'
  BY DEF AppNext, ConnectNext, CloseNext, AppStep,
         ConnectCall, ConnectDialFails, ConnectDials, ConnectHello,
         ConnectHelloFails, ConnectUp, ConnectSetState, ConnectSpawn,
         Close, CloseSetState, CloseConn

\* So does the reader, once it runs.
LEMMA ReaderEvents ==
    ASSUME ReaderNext
    PROVE  /\ ~ReaderSetsState => state' = state
           /\ rpc # "off" /\ rpc' # "off"
           /\ UNCHANGED <<mpc, closed>>
  BY DEF ReaderNext, ReaderStep, ReaderSetsState, AfterRejoin,
         ReadStops, ReadLost, LostSetState, NoAutoReconnect,
         ReconnectAttempt, GiveUp, WaitElapses, ReaderCancelled, Retry,
         RedialFails, Redials, AssignConn, Rehello, RehelloFails,
         ReconnectUp, ReconnectSetState, RejoinSnapshot, RejoinDone,
         RejoinSend, RejoinFails, FlushTake, FlushPush, FlushEnds,
         Respawn, RejoinBuffers, RejoinPush

\* What a goroutine leaves for delivery.
LEMMA Leaves ==
    ASSUME NEW g \in Goroutines, NEW sets, By(g, sets),
           firing = [h \in Goroutines |-> firing[h]]
    PROVE  /\ firing[g] = <<>> /\ known' = known
           /\ firing' = [h \in Goroutines |-> firing'[h]]
           /\ \A h \in Goroutines : h # g => firing'[h] = firing[h]
           /\ ~sets => firing'[g] = <<>>
           /\ sets => /\ firing'[g] # <<>>
                      /\ firing'[g][1].OldState = state
                      /\ firing'[g][1].NewState = state'
  <1>1. /\ firing[g] = <<>> /\ known' = known
        /\ firing' = [firing EXCEPT ![g] = IF sets THEN Event(state, state')
                                                   ELSE <<>>]
    BY DEF By, Waiting
  <1>2. /\ Event(state, state') # <<>>
        /\ Event(state, state')[1].OldState = state
        /\ Event(state, state')[1].NewState = state'
    BY DEF Event
  <1>3. firing'[g] = IF sets THEN Event(state, state') ELSE <<>>
    BY <1>1
  <1>4. firing' = [h \in Goroutines |-> firing'[h]]
    BY <1>1
  <1>5. \A h \in Goroutines : h # g => firing'[h] = firing[h]
    BY <1>1
  <1>6. QED
    BY <1>1, <1>2, <1>3, <1>4, <1>5

-----------------------------------------------------------------------------
(* The invariant.                                                          *)

LEMMA SeenInit == ReconnectInit => SeenInv
  <1>1. ReconnectInit => EventInv
    BY DEF ReconnectInit, Init, EventInv, OnItsWay, Goroutines
  <1>2. QED
    BY <1>1, InitInv DEF ReconnectInit, SeenInv

LEMMA AppKeeps == SeenInv /\ AppMoves => EventInv'
  <1> SUFFICES ASSUME SeenInv, AppMoves PROVE EventInv'
    OBVIOUS
  <1>1. AppNext /\ By("app", AppSetsState) /\ "app" \in Goroutines
    BY DEF AppMoves, AppNext, Goroutines
  <1>2. PhaseInv /\ EventInv
    BY DEF SeenInv, IInv
  <1>3. /\ firing["app"] = <<>> /\ known' = known
        /\ firing' = [h \in Goroutines |-> firing'[h]]
        /\ firing'["reader"] = firing["reader"]
        /\ ~AppSetsState => firing'["app"] = <<>>
        /\ AppSetsState => /\ firing'["app"] # <<>>
                           /\ firing'["app"][1].OldState = state
                           /\ firing'["app"][1].NewState = state'
    BY <1>1, <1>2, Leaves DEF EventInv, Goroutines
  <1>4. mpc' \in {"closeState", "closeConn"} => closed'
    BY <1>1, <1>2, AppCloses DEF EventInv
  <1>5. ASSUME ~closed'
        PROVE  /\ OnItsWay("app")' /\ OnItsWay("reader")'
               /\ firing'["app"] # <<>> => rpc' = "off"
               /\ firing'["reader"] # <<>> => rpc' # "off"
               /\ firing'["app"] = <<>> /\ firing'["reader"] = <<>>
                      => known' = state'
    <2>1. /\ ~closed /\ rpc = "off"
          /\ ~AppSetsState => state' = state
          /\ AppSetsState => rpc' = "off"
      BY <1>1, <1>2, <1>5, AppEvents DEF EventInv
    <2>2. firing["reader"] = <<>> /\ known = state
      BY <1>2, <1>3, <2>1 DEF EventInv
    <2>3. QED
      BY <1>3, <2>1, <2>2 DEF OnItsWay
  <1>6. QED
    BY <1>3, <1>4, <1>5 DEF EventInv

LEMMA ReaderKeeps == SeenInv /\ ReaderMoves => EventInv'
  <1> SUFFICES ASSUME SeenInv, ReaderMoves PROVE EventInv'
    OBVIOUS
  <1>1. ReaderNext /\ By("reader", ReaderSetsState) /\ "reader" \in Goroutines
    BY DEF ReaderMoves, Goroutines
  <1>2. EventInv
    BY DEF SeenInv
  <1>3. /\ firing["reader"] = <<>> /\ known' = known
        /\ firing' = [h \in Goroutines |-> firing'[h]]
        /\ firing'["app"] = firing["app"]
        /\ ~ReaderSetsState => firing'["reader"] = <<>>
        /\ ReaderSetsState => /\ firing'["reader"] # <<>>
                              /\ firing'["reader"][1].OldState = state
                              /\ firing'["reader"][1].NewState = state'
    BY <1>1, <1>2, Leaves DEF EventInv, Goroutines
  <1>4. /\ ~ReaderSetsState => state' = state
        /\ rpc # "off" /\ rpc' # "off" /\ mpc' = mpc /\ closed' = closed
    BY <1>1, ReaderEvents
  <1>5. ~closed => firing["app"] = <<>> /\ known = state
    BY <1>2, <1>3, <1>4 DEF EventInv
  <1>6. QED
    BY <1>2, <1>3, <1>4, <1>5 DEF EventInv, OnItsWay

LEMMA OthersKeep == SeenInv /\ OthersMove => EventInv'
  <1> SUFFICES ASSUME SeenInv, OthersMove PROVE EventInv'
    OBVIOUS
  <1>1. UNCHANGED <<state, mpc, closed, rpc>>
    BY WriterLeaves, CallerLeaves, LinkLeaves DEF OthersMove, LinkNext
  <1>2. UNCHANGED <<firing, known>>
    BY DEF OthersMove, seenVars
  <1>3. QED
    BY <1>1, <1>2 DEF SeenInv, EventInv, OnItsWay

LEMMA FireKeeps ==
    ASSUME SeenInv, NEW g \in Goroutines, Fire(g) PROVE EventInv'
  <1>1. /\ EventInv /\ firing[g] # <<>>
        /\ known' = firing[g][1].NewState
        /\ firing' = [firing EXCEPT ![g] = <<>>]
        /\ UNCHANGED <<state, mpc, closed, rpc>>
    BY DEF SeenInv, Fire
  <1>2. firing' = [h \in Goroutines |-> firing'[h]] /\ firing'[g] = <<>>
    BY <1>1 DEF EventInv
  <1>3. \A h \in Goroutines : h # g => firing'[h] = firing[h]
    BY <1>1 DEF EventInv
  <1>4. ~closed => /\ firing[g][1].NewState = state
                   /\ \A h \in Goroutines : h # g => firing[h] = <<>>
    BY <1>1 DEF EventInv, OnItsWay, Goroutines
  <1>5. QED
    BY <1>1, <1>2, <1>3, <1>4 DEF EventInv, OnItsWay, Goroutines

THEOREM SeenInvariance == ReconnectSpec => []SeenInv
  <1>1. SeenInv /\ [ReconnectNext]_allVars => SeenInv'
    <2> SUFFICES ASSUME SeenInv, [ReconnectNext]_allVars PROVE SeenInv'
      OBVIOUS
    <2>1. IInv'
      BY ClientStep DEF SeenInv
    <2>2. CASE ReconnectNext
      BY <2>1, <2>2, AppKeeps, ReaderKeeps, OthersKeep, FireKeeps
      DEF ReconnectNext, SeenInv
    <2>3. CASE UNCHANGED allVars
      BY <2>1, <2>3 DEF SeenInv, EventInv, OnItsWay, allVars, seenVars
    <2>4. QED
      BY <2>2, <2>3
  <1>2. QED
    BY SeenInit, <1>1, PTL DEF ReconnectSpec

-----------------------------------------------------------------------------
(* The properties.                                                         *)

\* With no event on its way, State() is what the last event said.
THEOREM EventsTellState == ReconnectSpec => []EventsTell
  <1>1. SeenInv => EventsTell
    BY DEF SeenInv, EventInv, EventsTell, Goroutines
  <1>2. QED
    BY <1>1, SeenInvariance, PTL

\* Each event begins in the state in which the one before ended.
THEOREM EventsFormChain == ReconnectSpec => EventsChain
  <1>1. SeenInv /\ [ReconnectNext]_allVars
           => [\A g \in Goroutines :
                  Fire(g) /\ ~closed => firing[g][1].OldState = known]_allVars
    BY DEF SeenInv, EventInv, OnItsWay, Goroutines, Fire
  <1>2. QED
    BY <1>1, SeenInvariance, PTL DEF ReconnectSpec, EventsChain

-----------------------------------------------------------------------------
(* Powers of two.  That they double is not known to the provers, but it    *)
(* follows from the number of subsets of a finite set.                     *)

\* Induction over the numbers, for a set.
LEMMA NumbersBySteps ==
    ASSUME NEW S, 0 \in S, \A n \in Nat : n \in S => n + 1 \in S
    PROVE  Nat \subseteq S
  <1> SUFFICES ASSUME NEW k \in Nat, k \notin S PROVE FALSE
    OBVIOUS
  <1> DEFINE T == Nat \ S
             R == OpToRel(<, Nat)
  <1>1. T \subseteq Nat /\ T # {}
    OBVIOUS
  <1>2. IsWellFoundedOn(R, Nat)
    BY NatLessThanWellFounded
  <1> HIDE DEF T, R
  <1>3. PICK x \in T : \A y \in T : <<y, x>> \notin R
    BY <1>1, <1>2, WFMin, Zenon
  <1>4. x \in Nat /\ x \notin S /\ x # 0
    BY <1>3 DEF T
  <1>5. x - 1 \in Nat /\ x - 1 < x /\ (x - 1) + 1 = x
    BY <1>4
  <1>6. x - 1 \in T
    BY <1>4, <1>5 DEF T
  <1>7. <<x - 1, x>> \in R
    <2>1. <<x - 1, x>> \in Nat \X Nat
      BY <1>4, <1>5
    <2> DEFINE p == <<x - 1, x>>
    <2>2. p[1] < p[2] /\ p \in Nat \X Nat
      BY <1>5, <2>1
    <2> HIDE DEF p
    <2>3. p \in OpToRel(<, Nat)
      BY <2>2 DEF OpToRel
    <2>4. QED
      BY <2>3 DEF R, p
  <1>8. QED
    BY <1>3, <1>6, <1>7

\* A power of two counts the subsets of a set, and a new element doubles them.
LEMMA PowerIs ==
    ASSUME NEW n \in Nat
    PROVE  2 ^ n = Cardinality(SUBSET (1 .. n)) /\ IsFiniteSet(SUBSET (1 .. n))
  <1>1. IsFiniteSet(1 .. n) /\ Cardinality(1 .. n) = n
    BY FS_Interval
  <1>2. /\ IsFiniteSet(SUBSET (1 .. n))
        /\ Cardinality(SUBSET (1 .. n)) = 2 ^ Cardinality(1 .. n)
    BY <1>1, FS_SUBSET
  <1>3. QED
    BY <1>1, <1>2, Zenon

LEMMA PowerNext ==
    ASSUME NEW n \in Nat
    PROVE  2 ^ n \in Nat /\ 2 ^ n > 0 /\ 2 ^ (n + 1) = 2 * 2 ^ n
  <1> DEFINE A == SUBSET (1 .. n)
             with == [s \in A |-> s \cup {n + 1}]
             B == {with[s] : s \in A}
             C == SUBSET (1 .. n + 1)
  <1>1. IsFiniteSet(A) /\ Cardinality(A) \in Nat /\ 2 ^ n = Cardinality(A)
    BY PowerIs, FS_CardinalityType
  <1>2. 2 ^ (n + 1) = Cardinality(C)
    BY PowerIs
  <1>3. Cardinality(A) # 0
    <2>1. {} \in A
      OBVIOUS
    <2> HIDE DEF A
    <2>2. QED
      BY <1>1, <2>1, FS_EmptySet
  <1>4. n + 1 \notin 1 .. n /\ (1 .. n + 1) = (1 .. n) \cup {n + 1}
    OBVIOUS
  <1>5. C = A \cup B
    <2>1. ASSUME NEW s \in C PROVE s \in A \cup B
      <3>1. CASE n + 1 \in s
        <4>1. s \ {n + 1} \in A /\ s = (s \ {n + 1}) \cup {n + 1}
          BY <1>4, <3>1
        <4>2. QED
          BY <4>1
      <3>2. CASE n + 1 \notin s
        BY <1>4, <3>2
      <3>3. QED
        BY <3>1, <3>2
    <2>2. A \subseteq C /\ B \subseteq C
      BY <1>4
    <2>3. QED
      BY <2>1, <2>2
  <1>6. A \cap B = {}
    BY <1>4
  <1>7. with \in Bijection(A, B)
    <2>1. \A s, t \in A : with[s] = with[t] => s = t
      BY <1>4
    <2>2. with \in [A -> B] /\ \A t \in B : \E s \in A : with[s] = t
      OBVIOUS
    <2> HIDE DEF with, A, B
    <2>3. QED
      BY <2>1, <2>2 DEF Bijection, Injection, Surjection, IsInjective
  <1> HIDE DEF with, A, B, C
  <1>8. IsFiniteSet(B) /\ Cardinality(B) = Cardinality(A)
    BY <1>1, <1>7, FS_Bijection DEF ExistsBijection
  <1>9. Cardinality(C) = Cardinality(A) + Cardinality(A)
    <2>1. Cardinality(A \cup B)
             = Cardinality(A) + Cardinality(B) - Cardinality(A \cap B)
      BY <1>1, <1>8, FS_Union
    <2>2. Cardinality(A \cap B) = 0
      BY <1>6, FS_EmptySet, Zenon
    <2>3. QED
      BY <1>1, <1>5, <1>8, <2>1, <2>2
  <1>10. QED
    BY <1>1, <1>2, <1>3, <1>9

LEMMA PowerZero == 2 ^ 0 = 1
PROOF OBVIOUS

\* Powers of two multiply by adding their exponents.
LEMMA PowerSum ==
    ASSUME NEW m \in Nat, NEW n \in Nat
    PROVE  2 ^ (m + n) = 2 ^ m * 2 ^ n
  <1> DEFINE S == {k \in Nat : 2 ^ (m + k) = 2 ^ m * 2 ^ k}
  <1>1. 0 \in S
    <2>1. m + 0 = m /\ 2 ^ m \in Nat
      BY PowerNext
    <2>2. QED
      BY <2>1, PowerZero
  <1>2. ASSUME NEW k \in Nat, k \in S PROVE k + 1 \in S
    <2> DEFINE a == 2 ^ m
               b == 2 ^ k
    <2>1. a \in Nat /\ b \in Nat /\ 2 ^ (k + 1) = 2 * b
      BY PowerNext
    <2>2. 2 ^ ((m + k) + 1) = 2 * 2 ^ (m + k)
      BY PowerNext
    <2>3. m + (k + 1) = (m + k) + 1 /\ 2 ^ (m + k) = a * b
      BY <1>2
    <2>4. 2 ^ (m + (k + 1)) = 2 * (a * b)
      BY <2>2, <2>3, Zenon
    <2>5. 2 * (a * b) = a * (2 * b)
      <3> HIDE DEF a, b
      <3>1. QED
        BY <2>1
    <2>6. 2 ^ (m + (k + 1)) = a * 2 ^ (k + 1)
      BY <2>1, <2>4, <2>5, Zenon
    <2>7. QED
      BY <2>6
  <1> HIDE DEF S
  <1>3. n \in S
    BY <1>1, <1>2, NumbersBySteps
  <1>4. QED
    BY <1>3 DEF S

LEMMA PowerGrows ==
    ASSUME NEW m \in Nat, NEW n \in Nat, m <= n
    PROVE  2 ^ m <= 2 ^ n
  <1> DEFINE k == n - m
             a == 2 ^ m
             b == 2 ^ k
  <1>1. k \in Nat /\ m + k = n
    OBVIOUS
  <1>2. 2 ^ (m + k) = a * b
    BY <1>1, PowerSum
  <1>3. a \in Nat /\ b \in Nat /\ b > 0
    BY <1>1, PowerNext
  <1>4. 2 ^ n = a * b
    BY <1>1, <1>2, Zenon
  <1>5. a * b >= a
    <2> HIDE DEF a, b
    <2>1. QED
      BY <1>3
  <1>6. QED
    BY <1>4, <1>5

-----------------------------------------------------------------------------
(* The delays.  While the client is away, reconnectAttempt is the number   *)
(* of reconnects since the loss, and before it is away it is zero.         *)

AttemptInv ==
    /\ failures \in Nat /\ interval \in Intervals
    /\ rpc \in {"attempt", "giveup", "wait", "redial", "assign", "rehello",
                "retry", "reup"} => failures = reconnectAttempt
    /\ rpc \in {"off", "read", "lost", "reset", "snapshot", "rejoin", "push",
                "flush", "flushing", "respawn"} => reconnectAttempt = 0
    /\ rpc = "wait" => reconnectAttempt > 0

LEMMA AttemptInit == ReconnectInit => AttemptInv
PROOF BY DEF ReconnectInit, Init, AttemptInv

LEMMA AttemptApp ==
    ASSUME IInv, AttemptInv, AppMoves PROVE AttemptInv'
  <1>1. UNCHANGED <<failures, interval>> /\ AppNext
    BY DEF AppMoves, By, AppNext
  <1>2. mpc \in {"up", "spawn"} => rpc = "off"
    BY DEF IInv, PhaseInv
  <1>3. \/ UNCHANGED <<rpc, reconnectAttempt>>
        \/ rpc = "off" /\ rpc' \in {"off", "read"}
           /\ reconnectAttempt' \in {0, reconnectAttempt}
    BY <1>1, <1>2 DEF AppNext, ConnectNext, CloseNext, AppStep,
       ConnectCall, ConnectDialFails, ConnectDials, ConnectHello,
       ConnectHelloFails, ConnectUp, ConnectSetState, ConnectSpawn,
       Close, CloseSetState, CloseConn
  <1>4. QED
    BY <1>1, <1>3 DEF AttemptInv

LEMMA AttemptReader ==
    ASSUME IInv, AttemptInv, ReaderMoves PROVE AttemptInv'
  <1>1. /\ ReaderNext /\ interval' = interval
        /\ rpc = "attempt" => failures' = IF failures < MaxAttempt
                                          THEN failures + 1 ELSE failures
        /\ rpc = "lost" => failures' = 0
        /\ rpc \notin {"attempt", "lost"} => failures' = failures
    BY DEF ReaderMoves, By
  <1>2. failures \in Nat /\ interval \in Intervals /\ reconnectAttempt \in 0 .. MaxAttempt
    BY DEF AttemptInv, IInv, TypeOK
  <1>3. failures' \in Nat /\ interval' \in Intervals
    BY <1>1, <1>2
  <1>4. CASE ReconnectAttempt
    <2>1. rpc = "attempt" /\ failures = reconnectAttempt
      BY <1>4 DEF ReconnectAttempt, ReaderStep, AttemptInv
    <2>2. reconnectAttempt' = failures' /\ reconnectAttempt' > 0
      BY <1>1, <1>2, <1>4, <2>1, BoundsAssumption, ConfigAssumption
      DEF ReconnectAttempt
    <2>3. rpc' \in {"wait", "giveup"}
      BY <1>4 DEF ReconnectAttempt, ReaderStep
    <2>4. QED
      BY <1>3, <2>2, <2>3 DEF AttemptInv
  <1>5. CASE ReconnectUp
    BY <1>3, <1>5 DEF ReconnectUp, ReaderStep, AttemptInv
  <1>6. CASE ~ReconnectAttempt /\ ~ReconnectUp
    <2>1. /\ reconnectAttempt' = reconnectAttempt /\ rpc # "attempt" /\ rpc # "reup"
          /\ rpc' # "wait" /\ rpc' # "off"
      BY <1>1, <1>6 DEF ReaderNext, ReaderStep,
         ReadStops, ReadLost, LostSetState, NoAutoReconnect,
         GiveUp, WaitElapses, ReaderCancelled, Retry,
         RedialFails, Redials, AssignConn, Rehello, RehelloFails,
         ReconnectSetState, RejoinSnapshot, RejoinDone,
         RejoinSend, RejoinFails, FlushTake, FlushPush, FlushEnds,
         Respawn, RejoinBuffers, RejoinPush, redial, AfterRejoin
    <2>2. rpc' \in {"read", "lost", "reset", "snapshot", "rejoin", "push",
                    "flush", "flushing", "respawn"}
             => rpc \in {"read", "reset", "snapshot", "rejoin", "push",
                         "flush", "flushing", "respawn"}
      BY <1>1, <1>6, <2>1 DEF ReaderNext, ReaderStep,
         ReadStops, ReadLost, LostSetState, NoAutoReconnect,
         GiveUp, WaitElapses, ReaderCancelled, Retry,
         RedialFails, Redials, AssignConn, Rehello, RehelloFails,
         ReconnectSetState, RejoinSnapshot, RejoinDone,
         RejoinSend, RejoinFails, FlushTake, FlushPush, FlushEnds,
         Respawn, RejoinBuffers, RejoinPush, AfterRejoin
    <2>3. rpc' \in {"attempt", "giveup", "redial", "assign", "rehello",
                    "retry", "reup"}
             => rpc \in {"lost", "giveup", "wait", "redial", "assign",
                         "rehello", "retry"}
      BY <1>1, <1>6, <2>1 DEF ReaderNext, ReaderStep,
         ReadStops, ReadLost, LostSetState, NoAutoReconnect,
         GiveUp, WaitElapses, ReaderCancelled, Retry,
         RedialFails, Redials, AssignConn, Rehello, RehelloFails,
         ReconnectSetState, RejoinSnapshot, RejoinDone,
         RejoinSend, RejoinFails, FlushTake, FlushPush, FlushEnds,
         Respawn, RejoinBuffers, RejoinPush, AfterRejoin
    <2>4. QED
      BY <1>1, <1>3, <2>1, <2>2, <2>3 DEF AttemptInv
  <1>7. QED
    BY <1>4, <1>5, <1>6

LEMMA AttemptOthers ==
    ASSUME AttemptInv, OthersMove \/ (\E g \in Goroutines : Fire(g)) \/ UNCHANGED allVars
    PROVE  AttemptInv'
  <1>1. UNCHANGED <<rpc, reconnectAttempt, failures, interval>>
    BY WriterLeaves, CallerLeaves, LinkLeaves
    DEF OthersMove, LinkNext, Fire, allVars, seenVars
  <1>2. QED
    BY <1>1 DEF AttemptInv

\* A number that fits in a Duration is not changed by the arithmetic.
LEMMA WrapFits ==
    ASSUME NEW n \in Nat, n < 2 ^ (Width - 1) PROVE Wrap(n) = n
  <1> DEFINE half == 2 ^ (Width - 1)
             all == 2 ^ Width
  <1>1. Width - 1 \in Nat /\ (Width - 1) + 1 = Width
    BY ClockAssumption
  <1>2. half \in Nat /\ 2 ^ ((Width - 1) + 1) = 2 * half
    BY <1>1, PowerNext
  <1>3. all = 2 * half
    BY <1>1, <1>2, Zenon
  <1>4. Wrap(n) = IF n % all < half THEN n % all ELSE (n % all) - all
    BY DEF Wrap
  <1> HIDE DEF half, all
  <1>5. n < half
    BY DEF half
  <1>6. n % all = n
    BY <1>2, <1>3, <1>5
  <1>7. QED
    BY <1>4, <1>5, <1>6

\* A product of a power does not shrink as the exponent grows.
LEMMA MultipleGrows ==
    ASSUME NEW i \in Nat, NEW m \in Nat, NEW n \in Nat, m <= n
    PROVE  i * 2 ^ m \in Nat /\ i * 2 ^ n \in Nat /\ i * 2 ^ m <= i * 2 ^ n
  <1> DEFINE a == 2 ^ m
             b == 2 ^ n
  <1>1. a \in Nat /\ b \in Nat /\ a <= b
    BY PowerNext, PowerGrows
  <1> HIDE DEF a, b
  <1>2. i * a \in Nat /\ i * b \in Nat /\ i * a <= i * b
    BY <1>1
  <1>3. QED
    BY <1>2 DEF a, b

\* The arithmetic of the code gives the delay of the documentation, at every
\* attempt.  Where the shift no longer grows both are at the maximum: that
\* takes an interval whose largest multiple reaches it, or none at all.
LEMMA DelayDocumented ==
    ASSUME interval \in Nat,
           interval = 0 \/ interval * 2 ^ ShiftCap >= MaxReconnectDelay,
           NEW a \in Nat, a > 0, Fits(a)
    PROVE  Delay(a) = Documented(a)
  <1> DEFINE k == Shift(a)
             x == interval * 2 ^ k
             y == interval * 2 ^ (a - 1)
             top == interval * 2 ^ ShiftCap
             max == MaxReconnectDelay
  <1>1. ShiftCap \in Nat /\ a - 1 \in Nat /\ max \in Nat
    BY ClockAssumption
  <1>2. k = IF a <= ShiftCap THEN a - 1 ELSE ShiftCap
    BY <1>1 DEF Shift
  <1>3. k \in Nat /\ k <= ShiftCap
    BY <1>1, <1>2
  <1>4. Wrap(x) = x
    <2>1. x < 2 ^ (Width - 1)
      BY DEF Fits
    <2> HIDE DEF k
    <2>2. x \in Nat
      BY <1>3, MultipleGrows
    <2> HIDE DEF x
    <2>3. QED
      BY <2>1, <2>2, WrapFits
  <1>5. Delay(a) = IF x > max THEN max ELSE x
    BY <1>4, Zenon DEF Delay
  <1>6. Documented(a) = IF y > max THEN max ELSE y
    BY Zenon DEF Documented
  <1>7. CASE a <= ShiftCap
    <2>1. k = a - 1
      BY <1>2, <1>7
    <2> HIDE DEF k
    <2>2. x = y
      BY <2>1
    <2> HIDE DEF x, y
    <2>3. QED
      BY <1>5, <1>6, <2>2
  <1>8. CASE ~(a <= ShiftCap)
    <2>1. k = ShiftCap /\ ShiftCap <= a - 1
      BY <1>1, <1>2, <1>8
    <2>2. top \in Nat /\ y \in Nat /\ top <= y
      BY <1>1, <2>1, MultipleGrows
    <2>3. x = top
      <3> HIDE DEF k
      <3>1. QED
        BY <2>1
    <2>4. interval = 0 => x = 0 /\ y = 0
      <3>1. 2 ^ ShiftCap \in Nat /\ 2 ^ (a - 1) \in Nat
        BY <1>1, PowerNext
      <3> DEFINE p == 2 ^ ShiftCap
                 q == 2 ^ (a - 1)
      <3>2. top = interval * p /\ y = interval * q
        OBVIOUS
      <3> HIDE DEF p, q, top, x, y
      <3>3. p \in Nat /\ q \in Nat
        BY <3>1 DEF p, q
      <3>4. QED
        BY <2>3, <3>2, <3>3
    <2>5. x = y \/ x >= max
      BY <2>3, <2>4
    <2> HIDE DEF x, y, top, k, max
    <2>6. QED
      BY <1>1, <1>5, <1>6, <2>2, <2>3, <2>5
  <1>9. QED
    BY <1>7, <1>8

\* A multiple that does not fit, of less than twice what a Duration holds,
\* becomes negative: the client does not wait at all.  The shift is capped
\* "to prevent overflow", the product is not.
THEOREM OverflowMeansNoWait ==
    ASSUME interval \in Nat, NEW a \in Nat, ~Fits(a),
           interval * 2 ^ Shift(a) < 2 ^ Width
    PROVE  Delay(a) < 0
  <1> DEFINE half == 2 ^ (Width - 1)
             all == 2 ^ Width
             k == Shift(a)
             x == interval * 2 ^ k
  <1>1. Width - 1 \in Nat /\ (Width - 1) + 1 = Width /\ ShiftCap \in Nat
        /\ MaxReconnectDelay \in Nat
    BY ClockAssumption
  <1>2. half \in Nat /\ 2 ^ ((Width - 1) + 1) = 2 * half
    BY <1>1, PowerNext
  <1>3. all = 2 * half
    BY <1>1, <1>2, Zenon
  <1>4. k \in Nat
    BY <1>1 DEF Shift
  <1>5. x \in Nat
    <2> HIDE DEF k
    <2>1. QED
      BY <1>4, MultipleGrows
  <1>6. ~(x < half) /\ x < all
    BY Zenon DEF Fits
  <1>7. Wrap(x) = IF x % all < half THEN x % all ELSE (x % all) - all
    BY DEF Wrap
  <1>8. Delay(a) = IF Wrap(x) > MaxReconnectDelay THEN MaxReconnectDelay
                                                  ELSE Wrap(x)
    BY Zenon DEF Delay
  <1> HIDE DEF half, all, k, x
  <1>9. x % all = x
    BY <1>2, <1>3, <1>5, <1>6
  <1>10. Wrap(x) = x - all
    BY <1>6, <1>7, <1>9
  <1>11. x - all < 0
    BY <1>2, <1>3, <1>5, <1>6
  <1>12. QED
    BY <1>1, <1>2, <1>3, <1>5, <1>8, <1>10, <1>11

\* Property BackoffDocumented: the delay before an attempt is the one that the
\* documentation gives, 1, 2, 4, 8, 16, 30 s for an interval of 1 s, whenever
\* the doubled interval fits in a Duration, for any width of it, any number of
\* attempts and any behaviour of the server; provided that no interval is so
\* small that its largest multiple stays below the maximum, where the delay
\* stops growing too early.
THEOREM BackoffAsDocumented ==
    ASSUME \A i \in Intervals : i = 0 \/ i * 2 ^ ShiftCap >= MaxReconnectDelay
    PROVE  ReconnectSpec => []BackoffDocumented
  <1>1. ReconnectInit => AttemptInv
    BY AttemptInit
  <1>2. SeenInv /\ AttemptInv /\ [ReconnectNext]_allVars => AttemptInv'
    BY AttemptApp, AttemptReader, AttemptOthers DEF ReconnectNext, SeenInv
  <1>3. SeenInv /\ AttemptInv => BackoffDocumented
    <2> SUFFICES ASSUME SeenInv, AttemptInv, rpc = "wait", Fits(reconnectAttempt)
                 PROVE  Delay(reconnectAttempt) = Documented(failures)
      BY DEF BackoffDocumented
    <2>1. /\ failures = reconnectAttempt
          /\ failures \in Nat /\ failures > 0 /\ interval \in Intervals
      BY DEF AttemptInv
    <2>2. interval \in Nat
      BY <2>1, ClockAssumption
    <2>3. interval = 0 \/ interval * 2 ^ ShiftCap >= MaxReconnectDelay
      BY <2>1
    <2>4. Fits(failures)
      BY <2>1, Zenon
    <2>5. Delay(failures) = Documented(failures)
      BY <2>1, <2>2, <2>3, <2>4, DelayDocumented
    <2>6. QED
      BY <2>1, <2>5, Zenon
  <1>4. QED
    BY <1>1, <1>2, <1>3, SeenInvariance, PTL DEF ReconnectSpec
=============================================================================
