---------------------------- MODULE GoReconnect -----------------------------
(***************************************************************************)
(* What the application sees of a Go client that comes and goes: the state *)
(* events, which setState delivers after it has released the lock, and the *)
(* delays between the attempts to reconnect, in the arithmetic of          *)
(* time.Duration.  Everything else is GoClient.                            *)
(*                                                                         *)
(* A Duration has Width bits and the shift stops at ShiftCap; the code has *)
(* 64 and 30, the runs small numbers in the same proportion to the delays. *)
(***************************************************************************)
EXTENDS GoClientProps, Integers

CONSTANTS
    Intervals,          \* values of ReconnectInterval
    MaxReconnectDelay,  \* field of Config
    Width, ShiftCap     \* bits of a Duration; largest shift

ASSUME ClockAssumption ==
    /\ Intervals \subseteq Nat /\ Intervals # {} /\ MaxReconnectDelay \in Nat
    /\ Width \in Nat /\ ShiftCap \in Nat /\ ShiftCap < Width

VARIABLES
    firing,     \* the event each goroutine is about to deliver
    known,      \* the state of the last event delivered
    interval,   \* c.cfg.ReconnectInterval
    failures    \* reconnects begun since the connection was lost

seenVars == <<firing, known, interval, failures>>
allVars == <<vars, seenVars>>

Goroutines == {"app", "reader"}

-----------------------------------------------------------------------------
(* The delay before an attempt.                                            *)

\* The product of a Duration and a shifted one, in two's complement.
Wrap(n) ==
    LET low == n % (2 ^ Width)
    IN  IF low < 2 ^ (Width - 1) THEN low ELSE low - 2 ^ Width

\* Mutant: the first retry waits twice the interval.
ShiftTooFar(attempt) == IF attempt <= ShiftCap THEN attempt ELSE ShiftCap

Shift(attempt) ==
    CASE attempt <= 0 -> 0
      [] attempt > 0 /\ attempt <= ShiftCap -> attempt - 1
      [] OTHER -> ShiftCap

Delay(attempt) ==
    LET delay == Wrap(interval * 2 ^ Shift(attempt))
    IN  IF delay > MaxReconnectDelay THEN MaxReconnectDelay ELSE delay

-----------------------------------------------------------------------------
(* State events.  setState is a step of GoClient, known by the places it   *)
(* leads from and to; the goroutine then delivers the event before it does *)
(* anything else.                                                          *)

AppSetsState ==
    <<mpc, mpc'>> \in {<<"idle", "dial">>, <<"dial", "idle">>,
        <<"hello", "idle">>, <<"set", "spawn">>, <<"closeState", "closeConn">>}

ReaderSetsState ==
    \/ rpc \in {"lost", "noauto", "giveup", "reset"}
    \/ <<rpc, rpc'>> \in {<<"read", "done">>, <<"wait", "redial">>}

Event(old, new) == <<[OldState |-> old, NewState |-> new]>>

\* Mutant: the event is handed to a goroutine of its own.
NotWaiting(g) == TRUE

Waiting(g) == firing[g] = <<>>

\* A step of a goroutine, and the event it leaves for delivery.
By(g, sets) ==
    /\ Waiting(g)
    /\ firing' = [firing EXCEPT ![g] = IF sets THEN Event(state, state') ELSE <<>>]
    /\ UNCHANGED <<known, interval>>

AppMoves ==
    /\ ConnectCall \/ Close \/ ConnectNext \/ CloseNext
    /\ By("app", AppSetsState)
    /\ UNCHANGED failures

ReaderMoves ==
    /\ ReaderNext /\ By("reader", ReaderSetsState)
    /\ failures' = CASE rpc = "attempt" /\ failures < MaxAttempt -> failures + 1
                     [] rpc = "lost" -> 0
                     [] OTHER -> failures

OthersMove ==
    /\ \/ \E w \in Conns : WriterNext(w)
       \/ \E c \in Callers : CallerNext(c)
       \/ \E c \in Conns : LinkDrops(c) \/ ServerCloses(c)
    /\ UNCHANGED seenVars

Fire(g) ==
    /\ firing[g] # <<>>
    /\ known' = firing[g][1].NewState
    /\ firing' = [firing EXCEPT ![g] = <<>>]
    /\ UNCHANGED <<vars, interval, failures>>

ReconnectInit ==
    /\ Init
    /\ firing = [g \in Goroutines |-> <<>>]
    /\ known = state /\ failures = 0
    /\ interval \in Intervals

ReconnectNext ==
    AppMoves \/ ReaderMoves \/ OthersMove \/ \E g \in Goroutines : Fire(g)

ReconnectSpec == ReconnectInit /\ [][ReconnectNext]_allVars

-----------------------------------------------------------------------------
(* Properties                                                              *)

\* Until the application closes the client, the events it is given form a
\* chain: each begins in the state in which the one before ended.  The lock
\* is not held while an event is delivered; that the events do not overtake
\* one another rests on Connect and the reader never running together.
EventsChain ==
    [][\A g \in Goroutines :
          Fire(g) /\ ~closed => firing[g][1].OldState = known]_allVars

\* An application that follows the events knows the state: when no event is
\* on its way, State() is what the last event said.
EventsTell ==
    ~closed /\ (\A g \in Goroutines : firing[g] = <<>>) => known = state

\* The delay is the documented one, 1, 2, 4, 8, 16, 30 s for an interval of
\* 1 s, however many attempts there are, and again from the start after a
\* loss: at every attempt at which the doubled interval fits in a Duration.
Documented(n) ==
    LET doubled == interval * 2 ^ (n - 1)
    IN  IF doubled > MaxReconnectDelay THEN MaxReconnectDelay ELSE doubled

Fits(attempt) == interval * 2 ^ Shift(attempt) < 2 ^ (Width - 1)

BackoffDocumented ==
    rpc = "wait" /\ Fits(reconnectAttempt)
        => Delay(reconnectAttempt) = Documented(failures)
=============================================================================
