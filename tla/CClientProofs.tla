---------------------------- MODULE CClientProofs ---------------------------
(***************************************************************************)
(* Proofs about the C client, for any callers and any number of            *)
(* connections and calls: what it takes to use something freed, which      *)
(* service threads there are, the types, that the hello is the first frame *)
(* of a connection, that requests stay in their session, that none is sent *)
(* twice, and that a caller's requests are sent in order.                  *)
(***************************************************************************)
EXTENDS CClientProps, TallyProofs

-----------------------------------------------------------------------------
(* The inductive invariant.                                                *)

Active(t) == spc[t] \notin {"off", "done"}

\* From the creation of the context to its destruction or loss, and no
\* longer, the fields name the newest one.
Session ==
    /\ running <=> apc = "spawn" \/ opened
    /\ opened => apc = "idle" /\ thread = conns /\ Active(conns)
    /\ opened \/ apc \in {"run", "spawn"} =>
            conns # 0 /\ ctx = conns /\ wsi = conns /\ link[conns] # "freed"
    /\ apc = "join" => conns # 0 /\ thread = conns /\ ctx = conns

\* One thread is active, in a session or while close waits for it, and is
\* inside the library only with the context of the session.
Threads ==
    \A t \in Conns :
        /\ t > conns => spc[t] = "off"
        /\ apc \in {"run", "spawn"} /\ t = conns => spc[t] = "off"
        /\ Active(t) => t = conns /\ (opened \/ apc = "join")
        /\ InService(t) => sctx[t] = conns

\* A request in progress finds the client running.
Requests == Busy => running

IInv ==
    /\ ControlTypes
    /\ ~unsafe => ~misuse /\ Session /\ Threads /\ Requests

LEMMA InitInv == Init => IInv
<1> USE BoundsAssumption DEF BoundsAssumption, Conns, Init
<1> SUFFICES ASSUME Init PROVE IInv
  OBVIOUS
<1>1. ControlTypes
  <2>1. /\ running \in BOOLEAN /\ opened \in BOOLEAN
        /\ unsafe \in BOOLEAN /\ misuse \in BOOLEAN
    BY Zenon
  <2>2. /\ ctx = 0 /\ wsi = 0 /\ thread = 0 /\ conns = 0 /\ apc = "idle"
        /\ link = [k \in Conns |-> "unused"] /\ spc = [t \in Conns |-> "off"]
        /\ sctx = [t \in Conns |-> 0] /\ cpc = [c \in Callers |-> "idle"]
    OBVIOUS
  <2> QED BY <2>1, <2>2 DEF ControlTypes
<1>2. Session
  BY DEF Session
<1>3. Threads
  BY DEF Threads, Active, InService
<1>4. Requests
  BY DEF Requests, Busy
<1> QED BY <1>1, <1>2, <1>3, <1>4 DEF IInv

-----------------------------------------------------------------------------
(* Each action preserves it.                                               *)

LEMMA ConnectInv ==
    IInv /\ (ConnectFails \/ ConnectOpens \/ ConnectNext) => IInv'
<1> USE BoundsAssumption DEF BoundsAssumption, Conns,
                               fields, net, services, callers, history
<1>1. ASSUME IInv, ConnectFails PROVE IInv'
  BY <1>1 DEF IInv, ControlTypes, Session, Threads, Requests, Busy, Active,
              InService, ConnectFails, AppStep
<1>2. ASSUME IInv, ConnectOpens PROVE IInv'
  <2>1. ControlTypes'
    BY <1>2 DEF IInv, ControlTypes, ConnectOpens, AppStep
  <2>2. ASSUME ~unsafe' PROVE ~misuse' /\ Session' /\ Threads' /\ Requests'
    BY <1>2, <2>2 DEF IInv, ControlTypes, Session, Threads, Requests, Busy,
                      Active, InService, ConnectOpens, AppStep
  <2> QED BY <2>1, <2>2 DEF IInv
<1>3. ASSUME IInv, ConnectRuns PROVE IInv'
  BY <1>3 DEF IInv, ControlTypes, Session, Threads, Requests, Busy, Active,
              InService, ConnectRuns, AppStep
<1>4. ASSUME IInv, ConnectSpawns PROVE IInv'
  <2>1. ControlTypes'
    BY <1>4 DEF IInv, ControlTypes, ConnectSpawns, AppStep
  <2>2. ASSUME ~unsafe' PROVE ~misuse' /\ Session' /\ Threads' /\ Requests'
    BY <1>4, <2>2 DEF IInv, ControlTypes, Session, Threads, Requests, Busy,
                      Active, InService, ConnectSpawns, AppStep
  <2> QED BY <2>1, <2>2 DEF IInv
<1>5. ASSUME IInv, ConnectSpawnFails PROVE IInv'
  <2>1. ControlTypes'
    <3>1. misuse' \in BOOLEAN /\ unsafe' \in BOOLEAN /\ running' \in BOOLEAN
      BY <1>5, Zenon DEF ConnectSpawnFails, Destroy
    <3>2. link' \in [Conns -> {"unused", "connecting", "open", "down", "freed"}]
      BY <1>5 DEF IInv, ControlTypes, ConnectSpawnFails, Destroy
    <3>3. opened' = opened /\ wsi' = wsi /\ thread' = thread /\ conns' = conns
          /\ spc' = spc /\ sctx' = sctx /\ cpc' = cpc
      BY <1>5 DEF ConnectSpawnFails, AppStep
    <3>4. ctx' = 0 /\ apc' = "idle"
      BY <1>5 DEF ConnectSpawnFails, AppStep
    <3> QED
      BY <1>5, <3>1, <3>2, <3>3, <3>4 DEF IInv, ControlTypes
  <2>2. ASSUME ~unsafe' PROVE ~misuse' /\ Session' /\ Threads' /\ Requests'
    BY <1>5, <2>2 DEF IInv, ControlTypes, Session, Threads, Requests, Busy,
                      Active, InService, ConnectSpawnFails, AppStep, Destroy
  <2> QED BY <2>1, <2>2 DEF IInv
<1> QED BY <1>1, <1>2, <1>3, <1>4, <1>5 DEF ConnectNext

LEMMA CloseInv == IInv /\ (CloseCall \/ CloseNext) => IInv'
<1> USE BoundsAssumption DEF BoundsAssumption, Conns,
                               fields, net, services, callers, history
<1>1. ASSUME IInv, CloseCall PROVE IInv'
  BY <1>1 DEF IInv, ControlTypes, Session, Threads, Requests, Busy, Active,
              InService, CloseCall, AppStep
<1>2. ASSUME IInv, CloseJoins PROVE IInv'
  BY <1>2 DEF IInv, ControlTypes, Session, Threads, Requests, Busy, Active,
              InService, CloseJoins, AppStep
<1>3. ASSUME IInv, CloseClears PROVE IInv'
  BY <1>3 DEF IInv, ControlTypes, Session, Threads, Requests, Busy, Active,
              InService, CloseClears, AppStep
<1>4. ASSUME IInv, CloseDestroys PROVE IInv'
  <2>1. ControlTypes'
    <3>1. misuse' \in BOOLEAN
      BY <1>4, Zenon DEF IInv, ControlTypes, CloseDestroys, Destroy
    <3>2. link' \in [Conns -> {"unused", "connecting", "open", "down", "freed"}]
      BY <1>4 DEF IInv, ControlTypes, CloseDestroys, Destroy
    <3>3. running' = running /\ opened' = opened /\ unsafe' = unsafe
          /\ thread' = thread /\ conns' = conns
          /\ spc' = spc /\ sctx' = sctx /\ cpc' = cpc
      BY <1>4 DEF CloseDestroys, AppStep
    <3>4. ctx' = 0 /\ wsi' = 0 /\ apc' = "idle"
      BY <1>4 DEF CloseDestroys, AppStep
    <3> QED
      BY <1>4, <3>1, <3>2, <3>3, <3>4 DEF IInv, ControlTypes
  <2>2. ASSUME ~unsafe' PROVE ~misuse' /\ Session' /\ Threads' /\ Requests'
    BY <1>4, <2>2 DEF IInv, ControlTypes, Session, Threads, Requests, Busy,
                      Active, InService, CloseDestroys, AppStep, Destroy
  <2> QED BY <2>1, <2>2 DEF IInv
<1> QED BY <1>1, <1>2, <1>3, <1>4 DEF CloseNext

LEMMA CallerInv ==
    ASSUME IInv, NEW c \in Callers, Call(c) \/ CallerNext(c)
    PROVE  IInv'
<1> USE BoundsAssumption DEF BoundsAssumption, Conns,
                               fields, net, services, callers, history
<1>1. CASE Call(c)
  BY <1>1 DEF IInv, ControlTypes, Session, Threads, Requests, Busy, Active,
              InService, Call, CallerStep
<1>2. CASE Enqueue(c)
  BY <1>2 DEF IInv, ControlTypes, Session, Threads, Requests, Busy, Active,
              InService, Enqueue, CallerStep
<1>3. CASE Wake(c)
  BY <1>3 DEF IInv, ControlTypes, Session, Threads, Requests, Busy, Active,
              InService, Wake, CallerStep
<1> QED BY <1>1, <1>2, <1>3 DEF CallerNext

LEMMA ServiceInv ==
    ASSUME IInv, NEW t \in Conns, ServiceNext(t)
    PROVE  IInv'
<1> USE BoundsAssumption DEF BoundsAssumption, Conns,
                               fields, net, services, callers, history
<1>1. CASE Checks(t)
  <2>1. ControlTypes'
    BY <1>1 DEF IInv, ControlTypes, Checks, ServiceStep, InService
  <2>2. ASSUME ~unsafe' PROVE ~misuse' /\ Session' /\ Threads' /\ Requests'
    BY <1>1, <2>2 DEF IInv, ControlTypes, Session, Threads, Requests, Busy,
                      Active, InService, Checks, ServiceStep
  <2> QED BY <2>1, <2>2 DEF IInv
<1>2. CASE Returns(t)
  BY <1>2 DEF IInv, ControlTypes, Session, Threads, Requests, Busy, Active,
              InService, Returns, ServiceStep
<1>3. CASE Established(t)
  BY <1>3 DEF IInv, ControlTypes, Session, Threads, Requests, Busy, Active,
              InService, Established, ServiceStep
<1>4. CASE Writeable(t)
  BY <1>4 DEF IInv, ControlTypes, Session, Threads, Requests, Busy, Active,
              InService, Writeable, ServiceStep
<1>5. CASE Pops(t)
  BY <1>5 DEF IInv, ControlTypes, Session, Threads, Requests, Busy, Active,
              InService, Pops, ServiceStep
<1>6. CASE Sends(t)
  BY <1>6 DEF IInv, ControlTypes, Session, Threads, Requests, Busy, Active,
              InService, Sends, ServiceStep
<1>7. CASE Closed(t)
  BY <1>7 DEF IInv, ControlTypes, Closed, ServiceStep
<1> QED BY <1>1, <1>2, <1>3, <1>4, <1>5, <1>6, <1>7 DEF ServiceNext

LEMMA StepInv == IInv /\ [Next]_vars => IInv'
<1> SUFFICES ASSUME IInv, [Next]_vars PROVE IInv'
  OBVIOUS
<1>1. ASSUME NEW k \in Conns, LinkDrops(k) PROVE IInv'
  BY <1>1 DEF IInv, ControlTypes, Session, Threads, Requests, Busy, Active,
              InService, LinkDrops, Conns, fields, services, callers, history
<1>2. CASE UNCHANGED vars
  BY <1>2 DEF IInv, ControlTypes, Session, Threads, Requests, Busy, Active,
              InService, vars, fields, net, services, callers, history
<1> QED
  BY <1>1, <1>2, ConnectInv, CloseInv, CallerInv, ServiceInv DEF Next

THEOREM CInvariance == Spec => []IInv
BY InitInv, StepInv, PTL DEF Spec

-----------------------------------------------------------------------------
(* What follows.                                                           *)

\* A context or connection that was freed is used only in a history in which
\* a connection ended by itself, or a close or a failed connect came during
\* a request: otherwise close and the threads keep out of one another's way.
THEOREM MisuseTakesUnsafe == Spec => []NoMisuse
<1>1. IInv => NoMisuse
  BY DEF IInv, NoMisuse
<1> QED BY <1>1, CInvariance, PTL

\* In such histories a client in use has exactly its one service thread, and
\* a client not in use has none: close has waited for it.
THEOREM ThreadPerSession == Spec => []OneThread
<1>1. IInv => OneThread
  BY BoundsAssumption
     DEF IInv, ControlTypes, Session, Threads, OneThread, Active, Conns,
         BoundsAssumption
<1> QED BY <1>1, CInvariance, PTL

-----------------------------------------------------------------------------
(* Frames.  What the client holds was accepted on the newest connection,   *)
(* for as long as no connection has ended by itself; the hello is sent     *)
(* before anything is taken from the list.                                 *)

Of(s, n) == \A i \in DOMAIN s : s[i].of = n
OnlyOf(s, k) == \A i \in DOMAIN s : s[i].of \in {0, k}
HelloAhead(s) == \A i \in DOMAIN s : s[i] = Hello <=> i = 1

QueueInv ==
    /\ Of(out, conns)
    /\ out # <<>> => running \/ apc \in {"join", "clear"}
    /\ \A t \in Conns : Of(hand[t], conns) /\ (hand[t] # <<>> => spc[t] = "send")
    /\ \A c \in Callers :
          Of(chand[c], conns) /\ (chand[c] # <<>> => cpc[c] = "enqueue")
    /\ \A k \in Conns : OnlyOf(wire[k], k)

HelloInv ==
    /\ \A k \in Conns : HelloAhead(wire[k])
    /\ \A k \in Conns :
          k > conns \/ (k = conns /\ apc \in {"run", "spawn"}) => wire[k] = <<>>
    /\ opened \/ apc = "join" =>
          /\ ~helloSent => wire[conns] = <<>>
          /\ helloSent /\ link[conns] \in {"connecting", "open"}
                => wire[conns] # <<>>
    /\ \A t \in Conns : spc[t] \in {"pop", "send"} => helloSent

FInv == FrameTypes /\ (~unsafe => QueueInv /\ HelloInv)

LEMMA OfConcat ==
    ASSUME NEW s \in Seq(Frames), NEW t \in Seq(Frames), NEW n,
           Of(s, n), Of(t, n)
    PROVE  s \o t \in Seq(Frames) /\ Of(s \o t, n)
  BY ConcatProperties DEF Of

LEMMA OfParts ==
    ASSUME NEW s \in Seq(Frames), NEW n
    PROVE  /\ First(s) \in Seq(Frames) /\ SubSeq(s, 2, Len(s)) \in Seq(Frames)
           /\ Of(s, n) => Of(First(s), n) /\ Of(SubSeq(s, 2, Len(s)), n)
           /\ s = <<>> => SubSeq(s, 2, Len(s)) = <<>>
  <1>1. CASE s = <<>>
    BY <1>1 DEF First, Of
  <1>2. CASE s # <<>>
    <2>1. First(s) = <<s[1]>> /\ s[1] \in Frames
      BY <1>2 DEF First
    <2>2. /\ SubSeq(s, 2, Len(s)) \in Seq(Frames)
          /\ \A i \in DOMAIN SubSeq(s, 2, Len(s)) :
                i + 1 \in DOMAIN s /\ SubSeq(s, 2, Len(s))[i] = s[i + 1]
      BY <1>2
    <2>3. QED
      BY <1>2, <2>1, <2>2 DEF Of
  <1>3. QED
    BY <1>1, <1>2

LEMMA WireTypes ==
    ASSUME NEW f \in [Conns -> Seq(Frames \cup {Hello})], NEW k,
           NEW s \in Seq(Frames \cup {Hello})
    PROVE  [f EXCEPT ![k] = @ \o s] \in [Conns -> Seq(Frames \cup {Hello})]
  <1> DEFINE S == Frames \cup {Hello}
  <1> HIDE DEF S
  <1>0. f \in [Conns -> Seq(S)] /\ s \in Seq(S)
    BY DEF S
  <1>1. \A j \in Conns : f[j] \o s \in Seq(S)
    BY <1>0
  <1>2. [f EXCEPT ![k] = @ \o s] \in [Conns -> Seq(S)]
    BY <1>0, <1>1
  <1>3. QED
    BY <1>2 DEF S

\* Frames written on a connection follow those that are there.
LEMMA WireGrows ==
    ASSUME NEW s \in Seq(Frames \cup {Hello}), NEW t \in Seq(Frames),
           NEW k \in Conns, Of(t, k), s # <<>>, OnlyOf(s, k), HelloAhead(s)
    PROVE  s \o t # <<>> /\ OnlyOf(s \o t, k) /\ HelloAhead(s \o t)
  <1>1. t \in Seq(Frames \cup {Hello})
    OBVIOUS
  <1>2. /\ s \o t \in Seq(Frames \cup {Hello})
        /\ Len(s \o t) = Len(s) + Len(t)
        /\ \A i \in 1 .. Len(s) + Len(t) :
              (s \o t)[i] = IF i <= Len(s) THEN s[i] ELSE t[i - Len(s)]
    BY <1>1, ConcatProperties
  <1>3. \A f \in Frames : f # Hello
    BY BoundsAssumption DEF Frames, Hello
  <1>4. Len(s) >= 1
    OBVIOUS
  <1>5. ASSUME NEW i \in 1 .. Len(s) + Len(t), i > Len(s)
        PROVE  (s \o t)[i] \in Frames /\ (s \o t)[i].of = k
    <2>1. i - Len(s) \in DOMAIN t /\ (s \o t)[i] = t[i - Len(s)]
      BY <1>2, <1>5
    <2>2. QED
      BY <2>1 DEF Of
  <1>6. \A i \in 1 .. Len(s) : i \in DOMAIN s /\ (s \o t)[i] = s[i]
    BY <1>2
  <1>7. DOMAIN (s \o t) = 1 .. Len(s) + Len(t)
    BY <1>2
  <1> HIDE DEF Hello
  <1>8. QED
    BY <1>2, <1>3, <1>4, <1>5, <1>6, <1>7 DEF OnlyOf, HelloAhead

LEMMA FrameInit == Init => FInv
  <1> SUFFICES ASSUME Init PROVE FInv
    OBVIOUS
  <1>1. FrameTypes
    BY BoundsAssumption DEF Init, FrameTypes
  <1>2. QueueInv /\ HelloInv
    BY BoundsAssumption DEF Init, QueueInv, HelloInv, Of, OnlyOf, HelloAhead, Conns
  <1>3. QED
    BY <1>1, <1>2 DEF FInv

\* connect: a new connection begins with nothing left from the last one.
LEMMA ConnectFrames ==
    IInv /\ FInv /\ (ConnectFails \/ ConnectOpens \/ ConnectNext) => FInv'
  <1> USE BoundsAssumption DEF Conns, fields, net, services, callers, history
  <1> SUFFICES ASSUME IInv, FInv, ConnectFails \/ ConnectOpens \/ ConnectNext
               PROVE  FInv'
    OBVIOUS
  <1>1. UNCHANGED <<out, wire, hand, chand, calls, cpc>>
    BY DEF ConnectNext, ConnectFails, ConnectOpens, ConnectRuns, ConnectSpawns,
           ConnectSpawnFails, AppStep
  <1>0. unsafe => unsafe'
    <2>1. ConnectSpawnFails => (unsafe => unsafe')
      BY Zenon DEF ConnectSpawnFails
    <2>2. QED
      BY <2>1 DEF ConnectNext, ConnectFails, ConnectOpens, ConnectRuns,
                  ConnectSpawns
  <1>2. FrameTypes'
    BY <1>1 DEF FInv, FrameTypes
  <1>3. ASSUME ~unsafe' PROVE QueueInv' /\ HelloInv'
    <2>0. ~unsafe /\ QueueInv /\ HelloInv /\ Session /\ Threads /\ Requests
      BY <1>0, <1>3 DEF FInv, IInv
    <2> USE <1>1, <2>0 DEF FInv, IInv, ControlTypes
    <2>1. CASE ConnectFails
      BY <2>1 DEF ConnectFails, AppStep, QueueInv, HelloInv, HelloAhead
    <2>2. CASE ConnectOpens
      <3>1. /\ out = <<>> /\ \A t \in Conns : hand[t] = <<>> /\ spc[t] \notin {"pop", "send"}
            /\ \A c \in Callers : chand[c] = <<>>
        BY <2>2 DEF ConnectOpens, AppStep, QueueInv, Requests, Busy, Session,
                    Threads, Active
      <3>2. QueueInv'
        BY <2>2, <3>1 DEF ConnectOpens, AppStep, QueueInv, Of
      <3>3. conns' = conns + 1 /\ UNCHANGED <<helloSent, spc, opened>> /\ apc' = "run"
        BY <2>2 DEF ConnectOpens, AppStep
      <3>4. ~opened
        BY <2>2 DEF ConnectOpens
      <3>5. HelloInv'
        BY <3>1, <3>3, <3>4 DEF HelloInv, HelloAhead
      <3>6. QED
        BY <3>2, <3>5
    <2>3. CASE ConnectRuns
      BY <2>3 DEF ConnectRuns, AppStep, QueueInv, HelloInv, HelloAhead
    <2>4. CASE ConnectSpawns
      <3>1. \A t \in Conns : spc[t] \notin {"pop", "send"}
        BY <2>4 DEF ConnectSpawns, AppStep, Session, Threads, Active
      <3>2. QueueInv'
        BY <2>4, <3>1 DEF ConnectSpawns, AppStep, QueueInv
      <3>3. /\ UNCHANGED <<conns, link>> /\ helloSent' = FALSE /\ apc' = "idle"
            /\ spc' = [spc EXCEPT ![conns] = "check"]
        BY <2>4 DEF ConnectSpawns, AppStep
      <3>4. wire[conns] = <<>>
        BY <2>4 DEF ConnectSpawns, AppStep, HelloInv, Session
      <3>5. \A t \in Conns : spc'[t] \notin {"pop", "send"}
        BY <3>1, <3>3
      <3>6. HelloInv'
        BY <3>3, <3>4, <3>5 DEF HelloInv, HelloAhead
      <3>7. QED
        BY <3>2, <3>6
    <2>5. CASE ConnectSpawnFails
      <3>1. \A t \in Conns : spc[t] \notin {"pop", "send"}
        BY <2>5 DEF ConnectSpawnFails, AppStep, Session, Threads, Active
      <3>2. out = <<>>
        BY <1>3, <2>5, Zenon DEF ConnectSpawnFails
      <3>3. QueueInv'
        BY <2>5, <3>1, <3>2 DEF ConnectSpawnFails, AppStep, QueueInv
      <3>4. HelloInv'
        BY <2>5, <3>1 DEF ConnectSpawnFails, AppStep, HelloInv, HelloAhead, Session
      <3>5. QED
        BY <3>3, <3>4
    <2>6. QED
      BY <2>1, <2>2, <2>3, <2>4, <2>5 DEF ConnectNext
  <1>4. QED
    BY <1>2, <1>3 DEF FInv

\* close: it clears the list before another connect can begin.
LEMMA CloseFrames == IInv /\ FInv /\ (CloseCall \/ CloseNext) => FInv'
  <1> USE BoundsAssumption DEF Conns, fields, net, services, callers, history
  <1> SUFFICES ASSUME IInv, FInv, CloseCall \/ CloseNext PROVE FInv'
    OBVIOUS
  <1>1. /\ UNCHANGED <<wire, hand, chand, calls, cpc, helloSent, conns, spc>>
        /\ out' = out \/ out' = <<>>
    BY DEF CloseNext, CloseCall, CloseJoins, CloseClears, CloseDestroys, AppStep
  <1>0. unsafe => unsafe'
    <2>1. CloseCall => (unsafe => unsafe')
      BY Zenon DEF CloseCall
    <2>2. QED
      BY <2>1 DEF CloseNext, CloseJoins, CloseClears, CloseDestroys
  <1>2. FrameTypes'
    <2>1. <<>> \in Seq(Frames)
      OBVIOUS
    <2>2. out' \in Seq(Frames)
      BY <1>1, <2>1 DEF FInv, FrameTypes
    <2>3. QED
      BY <1>1, <2>2 DEF FInv, FrameTypes
  <1>3. ASSUME ~unsafe' PROVE QueueInv' /\ HelloInv'
    <2>0. ~unsafe /\ QueueInv /\ HelloInv /\ Session /\ Threads /\ Requests
      BY <1>0, <1>3 DEF FInv, IInv
    <2> USE <1>1, <2>0 DEF FInv, IInv, ControlTypes, AppStep
    <2>1. CASE CloseCall
      BY <2>1 DEF CloseCall, QueueInv, HelloInv, HelloAhead, Session
    <2>2. CASE CloseJoins
      BY <2>2 DEF CloseJoins, QueueInv, HelloInv, HelloAhead, Session
    <2>3. CASE CloseClears
      BY <2>3 DEF CloseClears, QueueInv, HelloInv, HelloAhead, Session, Of
    <2>4. CASE CloseDestroys
      BY <2>4 DEF CloseDestroys, QueueInv, HelloInv, HelloAhead, Session
    <2>5. QED
      BY <2>1, <2>2, <2>3, <2>4 DEF CloseNext
  <1>4. QED
    BY <1>2, <1>3 DEF FInv

\* join and send: a message bears the number of the connection in use.
LEMMA CallerFrames ==
    ASSUME IInv, FInv, NEW c \in Callers, Call(c) \/ CallerNext(c)
    PROVE  FInv'
  <1> USE BoundsAssumption DEF Conns, fields, net, services, callers, history
  <1>1. UNCHANGED <<running, helloSent, conns, apc, spc, opened, unsafe, wire,
                    hand, link>>
    BY DEF CallerNext, Call, Enqueue, Wake, CallerStep
  <1>2. HelloInv => HelloInv'
    BY <1>1 DEF HelloInv, HelloAhead
  <1>3. CASE Call(c)
    <2>1. UNCHANGED out /\ calls' = calls + 1 /\ calls < MaxCalls /\ running
          /\ chand' = [chand EXCEPT ![c] = <<Message(c)>>]
          /\ cpc' = [cpc EXCEPT ![c] = "enqueue"]
      BY <1>3 DEF Call, CallerStep
    <2>2. Message(c) \in Frames
      BY <2>1 DEF Message, Frames, IInv, ControlTypes, FInv, FrameTypes
    <2>3. FrameTypes'
      BY <1>1, <2>1, <2>2 DEF FInv, FrameTypes
    <2>4. ASSUME ~unsafe PROVE QueueInv'
      <3>1. wsi = conns
        BY <1>3, <2>1, <2>4 DEF Call, CallerStep, IInv, Session
      <3>2. Of(<<Message(c)>>, conns)
        BY <3>1 DEF Of, Message
      <3>3. \A d \in Callers : Of(chand'[d], conns)
                               /\ (chand'[d] # <<>> => cpc'[d] = "enqueue")
        BY <2>1, <2>4, <3>2 DEF FInv, FrameTypes, QueueInv, IInv, ControlTypes
      <3>4. QED
        BY <1>1, <2>1, <2>4, <3>3 DEF FInv, QueueInv
    <2>5. QED
      BY <1>1, <1>2, <2>3, <2>4 DEF FInv
  <1>4. CASE Enqueue(c)
    <2>1. /\ out' = out \o chand[c] /\ UNCHANGED calls
          /\ chand' = [chand EXCEPT ![c] = <<>>]
          /\ cpc' = [cpc EXCEPT ![c] = "wake"] /\ cpc[c] # "idle"
      BY <1>4 DEF Enqueue, CallerStep
    <2>2. out \in Seq(Frames) /\ chand[c] \in Seq(Frames)
      BY DEF FInv, FrameTypes
    <2>3. out' \in Seq(Frames)
      BY <2>1, <2>2
    <2>4. FrameTypes'
      BY <1>1, <2>1, <2>3 DEF FInv, FrameTypes
    <2>5. ASSUME ~unsafe PROVE QueueInv'
      <3>1. Of(out', conns)
        BY <2>1, <2>2, <2>5, OfConcat DEF FInv, QueueInv
      <3>2. running
        BY <2>1, <2>5 DEF IInv, Requests, Busy
      <3>3. \A d \in Callers : Of(chand'[d], conns)
                               /\ (chand'[d] # <<>> => cpc'[d] = "enqueue")
        BY <2>1, <2>5 DEF FInv, FrameTypes, QueueInv, IInv, ControlTypes, Of
      <3>4. QED
        BY <1>1, <2>1, <2>5, <3>1, <3>2, <3>3 DEF FInv, QueueInv
    <2>6. QED
      BY <1>1, <1>2, <2>4, <2>5 DEF FInv
  <1>5. CASE Wake(c)
    <2>1. /\ UNCHANGED <<out, chand, calls>>
          /\ cpc' = [cpc EXCEPT ![c] = "idle"] /\ cpc[c] = "wake"
      BY <1>5 DEF Wake, CallerStep
    <2>2. FrameTypes'
      BY <1>1, <2>1 DEF FInv, FrameTypes
    <2>3. QueueInv => QueueInv'
      BY <1>1, <2>1 DEF QueueInv, IInv, ControlTypes
    <2>4. QED
      BY <1>1, <1>2, <2>2, <2>3 DEF FInv
  <1>6. QED
    BY <1>3, <1>4, <1>5 DEF CallerNext

\* The service thread: what the callback sends goes on its own connection,
\* after the hello.
LEMMA ServiceFrames ==
    ASSUME IInv, FInv, NEW t \in Conns, ServiceNext(t) PROVE FInv'
  <1> USE BoundsAssumption DEF Conns, fields, net, services, callers, history
  <1>1. UNCHANGED <<conns, apc, chand, calls, cpc, opened>>
    BY DEF ServiceNext, Checks, Returns, Established, Writeable, Pops, Sends,
           Closed, ServiceStep
  <1>2. ASSUME ~unsafe
        PROVE  QueueInv /\ HelloInv /\ Session /\ Threads /\ ~misuse
    BY <1>2 DEF FInv, IInv
  <1>3. CASE Checks(t) \/ Returns(t) \/ Established(t)
    <2>1. /\ UNCHANGED <<running, helloSent, out, wire, hand, unsafe>>
          /\ spc[t] \in {"check", "service"}
          /\ \E to \in {"service", "check", "done"} : spc' = [spc EXCEPT ![t] = to]
      BY <1>3 DEF Checks, Returns, Established, ServiceStep
    <2>2. FrameTypes'
      BY <1>1, <2>1 DEF FInv, FrameTypes
    <2>3. ASSUME ~unsafe PROVE QueueInv'
      BY <1>1, <1>2, <2>1, <2>3 DEF QueueInv, IInv, ControlTypes
    <2>4. ASSUME ~unsafe PROVE HelloInv'
      <3>1. spc[t] = "service" => sctx[t] = conns
        BY <1>2, <2>1, <2>4 DEF Threads, InService
      <3>2. link' = link \/ (link' = [link EXCEPT ![sctx[t]] = "open"]
                             /\ link[sctx[t]] = "connecting" /\ spc[t] = "service")
        BY <1>3 DEF Checks, Returns, Established, ServiceStep
      <3>3. /\ link'[conns] \in {"connecting", "open"}
                  => link[conns] \in {"connecting", "open"}
            /\ \A u \in Conns : spc'[u] \in {"pop", "send"}
                  => spc[u] \in {"pop", "send"}
        BY <2>1, <3>1, <3>2 DEF IInv, ControlTypes
      <3>4. QED
        BY <1>1, <1>2, <2>1, <2>4, <3>3 DEF HelloInv, HelloAhead
    <2>5. QED
      BY <2>1, <2>2, <2>3, <2>4 DEF FInv
  <1>4. CASE Closed(t)
    <2>1. UNCHANGED <<out, wire, hand>> /\ unsafe'
      BY <1>4 DEF Closed, ServiceStep
    <2>2. QED
      BY <1>1, <2>1 DEF FInv, FrameTypes
  <1>5. CASE Writeable(t)
    <2>1. /\ UNCHANGED <<running, out, link, hand, unsafe>> /\ helloSent'
          /\ spc[t] = "service" /\ spc' = [spc EXCEPT ![t] = "pop"]
          /\ link[sctx[t]] \in {"open", "down"}
          /\ wire' = wire \/ (~helloSent /\ link[sctx[t]] = "open"
                 /\ wire' = [wire EXCEPT ![sctx[t]] = @ \o <<Hello>>])
          /\ ~helloSent /\ link[sctx[t]] = "open"
                 => wire' = [wire EXCEPT ![sctx[t]] = @ \o <<Hello>>]
      BY <1>5 DEF Writeable, ServiceStep, Sent
    <2>2. <<Hello>> \in Seq(Frames \cup {Hello})
      OBVIOUS
    <2>3. wire' \in [Conns -> Seq(Frames \cup {Hello})]
      <3>1. wire \in [Conns -> Seq(Frames \cup {Hello})]
        BY DEF FInv, FrameTypes
      <3>2. [wire EXCEPT ![sctx[t]] = @ \o <<Hello>>]
                \in [Conns -> Seq(Frames \cup {Hello})]
        BY <2>2, <3>1, WireTypes
      <3>3. QED
        BY <2>1, <3>1, <3>2
    <2>4. FrameTypes'
      BY <1>1, <2>1, <2>3 DEF FInv, FrameTypes
    <2>5. ASSUME ~unsafe PROVE QueueInv' /\ HelloInv'
      <3>1. sctx[t] = conns /\ (opened \/ apc = "join")
        BY <1>2, <2>1, <2>5 DEF Threads, InService, Active
      <3>2. ~helloSent => wire[conns] = <<>>
        BY <1>2, <2>5, <3>1 DEF HelloInv
      <3>3. conns \in Conns
        BY <1>2, <2>1, <2>5 DEF Threads, Active
      <3>4. CASE wire' = wire
        <4>1. QueueInv'
          BY <1>1, <1>2, <2>1, <2>5, <3>4 DEF QueueInv, IInv, ControlTypes
        <4>2. link[conns] = "open" => wire[conns] # <<>>
          <5>1. CASE helloSent
            BY <1>2, <2>5, <3>1, <5>1 DEF HelloInv
          <5>2. CASE ~helloSent
            <6>1. <<>> \o <<Hello>> # <<>>
              OBVIOUS
            <6>2. link[conns] = "open" => wire'[conns] = <<>> \o <<Hello>>
              BY <2>1, <3>1, <3>2, <3>3, <5>2 DEF FInv, FrameTypes
            <6>3. QED
              BY <3>2, <3>4, <5>2, <6>1, <6>2
          <5>3. QED
            BY <5>1, <5>2
        <4>3. link[conns] # "connecting"
          BY <2>1, <3>1
        <4>4. HelloInv'
          BY <1>1, <1>2, <2>1, <2>5, <3>1, <3>4, <4>2, <4>3 DEF HelloInv, HelloAhead
        <4>5. QED
          BY <4>1, <4>4
      <3>5. CASE wire' # wire
        <4>1. wire' = [wire EXCEPT ![conns] = <<Hello>>]
          <5>1. <<>> \o <<Hello>> = <<Hello>>
            OBVIOUS
          <5>2. QED
            BY <2>1, <3>1, <3>2, <3>5, <5>1
        <4>2. wire'[conns] = <<Hello>>
              /\ \A k \in Conns : k # conns => wire'[k] = wire[k]
          BY <3>3, <4>1 DEF FInv, FrameTypes
        <4>3. /\ \A i \in DOMAIN <<Hello>> : i = 1 /\ <<Hello>>[i] = Hello
              /\ <<Hello>> # <<>> /\ Hello.of = 0
          BY DEF Hello
        <4>4. \A k \in Conns : HelloAhead(wire'[k])
          BY <1>2, <2>5, <4>2, <4>3 DEF HelloInv, HelloAhead
        <4>5. \A k \in Conns : OnlyOf(wire'[k], k)
          BY <1>2, <2>5, <4>2, <4>3 DEF QueueInv, OnlyOf
        <4>6. QueueInv'
          BY <1>1, <1>2, <2>1, <2>5, <4>5 DEF QueueInv, IInv, ControlTypes
        <4>7. apc \notin {"run", "spawn"}
          BY <1>2, <2>5, <3>1 DEF Session
        <4>8. \A k \in Conns : k > conns => k # conns
          BY DEF IInv, ControlTypes
        <4>9. HelloInv'
          BY <1>1, <1>2, <2>1, <2>5, <4>2, <4>3, <4>4, <4>7, <4>8 DEF HelloInv
        <4>10. QED
          BY <4>6, <4>9
      <3>6. QED
        BY <3>4, <3>5
    <2>6. QED
      BY <2>1, <2>4, <2>5 DEF FInv
  <1>6. CASE Pops(t)
    <2>1. /\ UNCHANGED <<running, helloSent, link, wire, unsafe>>
          /\ spc[t] = "pop" /\ spc' = [spc EXCEPT ![t] = "send"]
          /\ hand' = [hand EXCEPT ![t] = First(out)]
          /\ out' = SubSeq(out, 2, Len(out))
      BY <1>6 DEF Pops, ServiceStep
    <2>2. out \in Seq(Frames)
      BY DEF FInv, FrameTypes
    <2>3. FrameTypes'
      BY <1>1, <2>1, <2>2, OfParts DEF FInv, FrameTypes
    <2>4. ASSUME ~unsafe PROVE QueueInv'
      <3>1. /\ Of(First(out), conns) /\ Of(out', conns)
            /\ out = <<>> => out' = <<>>
        BY <1>2, <2>1, <2>2, <2>4, OfParts DEF QueueInv
      <3>2. QED
        BY <1>1, <1>2, <2>1, <2>4, <3>1
        DEF QueueInv, IInv, ControlTypes, FInv, FrameTypes
    <2>5. ASSUME ~unsafe PROVE HelloInv'
      BY <1>1, <1>2, <2>1, <2>5 DEF HelloInv, HelloAhead, IInv, ControlTypes
    <2>6. QED
      BY <2>1, <2>3, <2>4, <2>5 DEF FInv
  <1>7. CASE Sends(t)
    <2>1. /\ UNCHANGED <<running, helloSent, out, link, unsafe>>
          /\ spc[t] = "send" /\ spc' = [spc EXCEPT ![t] = "service"]
          /\ hand' = [hand EXCEPT ![t] = <<>>]
          /\ \/ wire' = wire
             \/ /\ link[sctx[t]] = "open"
                /\ wire' = [wire EXCEPT ![sctx[t]] = @ \o hand[t]]
      BY <1>7 DEF Sends, ServiceStep, Sent
    <2>2. hand[t] \in Seq(Frames)
      BY DEF FInv, FrameTypes
    <2>3. FrameTypes'
      <3>1. hand[t] \in Seq(Frames \cup {Hello})
        BY <2>2
      <3>2. wire' \in [Conns -> Seq(Frames \cup {Hello})]
        <4>1. wire \in [Conns -> Seq(Frames \cup {Hello})]
          BY DEF FInv, FrameTypes
        <4>2. [wire EXCEPT ![sctx[t]] = @ \o hand[t]]
                  \in [Conns -> Seq(Frames \cup {Hello})]
          BY <3>1, <4>1, WireTypes
        <4>3. QED
          BY <2>1, <4>1, <4>2
      <3>3. <<>> \in Seq(Frames)
        OBVIOUS
      <3>4. QED
        BY <1>1, <2>1, <3>2, <3>3 DEF FInv, FrameTypes
    <2>4. ASSUME ~unsafe PROVE QueueInv' /\ HelloInv'
      <3>1. /\ sctx[t] = conns /\ conns \in Conns /\ helloSent
            /\ opened \/ apc = "join"
        BY <1>2, <2>1, <2>4 DEF Threads, InService, Active, HelloInv
      <3>2. CASE wire' = wire
        <4>1. QueueInv'
          BY <1>1, <1>2, <2>1, <2>4, <3>2, SMTT(30)
          DEF QueueInv, IInv, ControlTypes, FInv, FrameTypes, Of
        <4>2. HelloInv'
          BY <1>1, <1>2, <2>1, <2>4, <3>2 DEF HelloInv, HelloAhead, IInv, ControlTypes
        <4>3. QED
          BY <4>1, <4>2
      <3>3. CASE link[conns] = "open" /\ wire' = [wire EXCEPT ![conns] = @ \o hand[t]]
        <4>1. /\ wire'[conns] = wire[conns] \o hand[t]
              /\ \A k \in Conns : k # conns => wire'[k] = wire[k]
          BY <3>1, <3>3 DEF FInv, FrameTypes
        <4>2. /\ wire[conns] \in Seq(Frames \cup {Hello}) /\ wire[conns] # <<>>
              /\ Of(hand[t], conns)
              /\ OnlyOf(wire[conns], conns) /\ HelloAhead(wire[conns])
          BY <1>2, <2>4, <3>1, <3>3
          DEF FInv, FrameTypes, HelloInv, QueueInv
        <4>3. /\ wire'[conns] # <<>> /\ OnlyOf(wire'[conns], conns)
              /\ HelloAhead(wire'[conns])
          BY <2>2, <3>1, <4>1, <4>2, WireGrows
        <4>4. \A k \in Conns : OnlyOf(wire'[k], k)
          BY <1>2, <2>4, <4>1, <4>3 DEF QueueInv
        <4>5. \A k \in Conns : HelloAhead(wire'[k])
          BY <1>2, <2>4, <4>1, <4>3 DEF HelloInv
        <4>6. QueueInv'
          BY <1>1, <1>2, <2>1, <2>4, <4>4
          DEF QueueInv, IInv, ControlTypes, FInv, FrameTypes, Of
        <4>7. apc \notin {"run", "spawn"}
          BY <1>2, <2>4, <3>1 DEF Session
        <4>8. \A k \in Conns : k > conns => k # conns
          BY DEF IInv, ControlTypes
        <4>9. HelloInv'
          BY <1>1, <1>2, <2>1, <2>4, <3>1, <4>1, <4>3, <4>5, <4>7, <4>8
          DEF HelloInv, IInv, ControlTypes
        <4>10. QED
          BY <4>6, <4>9
      <3>4. QED
        BY <2>1, <3>1, <3>2, <3>3
    <2>5. QED
      BY <2>1, <2>3, <2>4 DEF FInv
  <1>8. QED
    BY <1>3, <1>4, <1>5, <1>6, <1>7 DEF ServiceNext

LEMMA StepFrames == IInv /\ FInv /\ [Next]_vars => FInv'
  <1> SUFFICES ASSUME IInv, FInv, [Next]_vars PROVE FInv'
    OBVIOUS
  <1>1. ASSUME NEW k \in Conns, LinkDrops(k) PROVE FInv'
    BY <1>1 DEF LinkDrops, FInv, FrameTypes, QueueInv, HelloInv, HelloAhead,
                IInv, ControlTypes, fields, services, callers, history
  <1>2. CASE UNCHANGED vars
    BY <1>2 DEF FInv, FrameTypes, QueueInv, HelloInv, HelloAhead, Of,
                vars, fields, net, services, callers, history
  <1>3. QED
    BY <1>1, <1>2, ConnectFrames, CloseFrames, CallerFrames, ServiceFrames
    DEF Next

THEOREM FrameInvariance == Spec => [](IInv /\ FInv)
  BY InitInv, StepInv, FrameInit, StepFrames, PTL DEF Spec

\* The types of the client's fields and threads.
THEOREM CTypes == Spec => []TypeOK
  <1>1. IInv /\ FInv => TypeOK
    BY DEF IInv, FInv, TypeOK
  <1>2. QED
    BY <1>1, FrameInvariance, PTL

\* Where no connection ends by itself, the hello comes first and once on each.
THEOREM HelloComesFirst == Spec => []HelloFirst
  <1>1. IInv /\ FInv => HelloFirst
    BY DEF FInv, HelloInv, HelloAhead, HelloFirst
  <1>2. QED
    BY <1>1, FrameInvariance, PTL

\* In the same histories no request is sent on a connection later than the
\* one that accepted it: close leaves nothing in the list.
THEOREM RequestsStayInSession == Spec => []SentInItsSession
  <1>1. IInv /\ FInv => SentInItsSession
    BY DEF FInv, QueueInv, OnlyOf, SentInItsSession
  <1>2. QED
    BY <1>1, FrameInvariance, PTL

-----------------------------------------------------------------------------
(* Requests.  A request is with its caller, in the list, or with the       *)
(* service thread that took it from there; a thread that is inside the     *)
(* library has a connection, and one that was not started is nowhere.      *)

OutBox == <<"out", 0>>
CallBox(c) == <<"call", c>>
HandBox(t) == <<"hand", t>>
Index == {OutBox} \cup {CallBox(c) : c \in Callers} \cup {HandBox(t) : t \in Conns}

Contents ==
    [x \in Index |-> IF x[1] = "out" THEN out
                     ELSE IF x[1] = "call" THEN chand[x[2]] ELSE hand[x[2]]]

One(s) == \E f \in Frames : s = <<f>>

Hands ==
    /\ \A c \in Callers : IF cpc[c] = "enqueue" THEN One(chand[c]) ELSE chand[c] = <<>>
    /\ \A t \in Conns : hand[t] = <<>> \/ (spc[t] = "send" /\ One(hand[t]))
    /\ \A t \in Conns : InService(t) => sctx[t] \in Conns
    /\ \A t \in Conns : t > conns \/ (t = conns /\ apc \in {"run", "spawn"})
                          => spc[t] = "off"

Counted == \A i \in 1 .. MaxCalls : IsFiniteSet(Places(wire, i))

QInv == Hands /\ Boxes(Index, Frames, Contents, calls) /\ Counted

LEMMA NumberedFrames == \A f \in Frames : f.id # 0
  BY BoundsAssumption DEF Frames, BoundsAssumption

LEMMA Indices ==
    /\ OutBox \in Index
    /\ \A c \in Callers : CallBox(c) \in Index /\ CallBox(c) # OutBox
    /\ \A t \in Conns : HandBox(t) \in Index /\ HandBox(t) # OutBox
    /\ \A x \in Index : \/ x = OutBox
                        \/ \E c \in Callers : x = CallBox(c)
                        \/ \E t \in Conns : x = HandBox(t)
    /\ \A c \in Callers : \A t \in Conns : CallBox(c) # HandBox(t)
    /\ \A c, d \in Callers : CallBox(c) = CallBox(d) => c = d
    /\ \A t, u \in Conns : HandBox(t) = HandBox(u) => t = u
  <1>1. OutBox \in Index
    BY DEF Index
  <1>2. \A c \in Callers : CallBox(c) \in Index /\ CallBox(c) # OutBox
    BY DEF Index, OutBox, CallBox
  <1>3. \A t \in Conns : HandBox(t) \in Index /\ HandBox(t) # OutBox
    BY DEF Index, OutBox, HandBox
  <1>4. \A x \in Index : \/ x = OutBox
                         \/ \E c \in Callers : x = CallBox(c)
                         \/ \E t \in Conns : x = HandBox(t)
    <2>1. ASSUME NEW x \in Index
          PROVE  \/ x = OutBox
                 \/ \E c \in Callers : x = CallBox(c)
                 \/ \E t \in Conns : x = HandBox(t)
      BY <2>1 DEF Index
    <2>2. QED
      BY <2>1
  <1>5. /\ \A c \in Callers : \A t \in Conns : CallBox(c) # HandBox(t)
        /\ \A c, d \in Callers : CallBox(c) = CallBox(d) => c = d
        /\ \A t, u \in Conns : HandBox(t) = HandBox(u) => t = u
    BY DEF CallBox, HandBox
  <1>6. QED
    BY <1>1, <1>2, <1>3, <1>4, <1>5

LEMMA ContentsAt ==
    /\ Contents = [x \in Index |-> Contents[x]] /\ Contents[OutBox] = out
    /\ \A c \in Callers : Contents[CallBox(c)] = chand[c]
    /\ \A t \in Conns : Contents[HandBox(t)] = hand[t]
  <1>1. Contents = [x \in Index |-> Contents[x]]
    BY DEF Contents
  <1>2. Contents[OutBox] = out
    BY Indices DEF Contents, OutBox
  <1>3. ASSUME NEW c \in Callers PROVE Contents[CallBox(c)] = chand[c]
    BY Indices DEF Contents, CallBox
  <1>4. ASSUME NEW t \in Conns PROVE Contents[HandBox(t)] = hand[t]
    BY Indices DEF Contents, HandBox
  <1>5. QED
    BY <1>1, <1>2, <1>3, <1>4

LEMMA ContentsNext ==
    /\ Contents' = [x \in Index |-> Contents'[x]] /\ Contents'[OutBox] = out'
    /\ \A c \in Callers : Contents'[CallBox(c)] = chand'[c]
    /\ \A t \in Conns : Contents'[HandBox(t)] = hand'[t]
  <1>1. Contents' = [x \in Index |-> Contents'[x]]
    BY DEF Contents
  <1>2. Contents'[OutBox] = out'
    BY Indices DEF Contents, OutBox
  <1>3. ASSUME NEW c \in Callers PROVE Contents'[CallBox(c)] = chand'[c]
    BY Indices DEF Contents, CallBox
  <1>4. ASSUME NEW t \in Conns PROVE Contents'[HandBox(t)] = hand'[t]
    BY Indices DEF Contents, HandBox
  <1>5. QED
    BY <1>1, <1>2, <1>3, <1>4

LEMMA ContentsEqual ==
    ASSUME NEW G, G = [x \in Index |-> G[x]], G[OutBox] = out',
           \A c \in Callers : G[CallBox(c)] = chand'[c],
           \A t \in Conns : G[HandBox(t)] = hand'[t]
    PROVE  Contents' = G
  <1>1. ASSUME NEW x \in Index PROVE Contents'[x] = G[x]
    BY Indices, ContentsNext
  <1>2. QED
    BY <1>1, ContentsNext, Zenon

-----------------------------------------------------------------------------
(* What a step does to what is held, and to the wire.                      *)

Counts == [i \in 1 .. MaxCalls |-> Times(wire, i)]

HeldWhere == \A x : x \in Held <=> \E b \in Index : x \in Ids(Contents[b])

LEMMA HeldIn == HeldWhere
  <1>1. ASSUME NEW x
        PROVE  x \in Held <=> \E b \in Index : x \in Ids(Contents[b])
    <2>1. x \in Held <=> \/ x \in Ids(out)
                         \/ \E c \in Callers : x \in Ids(chand[c])
                         \/ \E t \in Conns : x \in Ids(hand[t])
      <3>1. x \in UNION {Ids(chand[c]) : c \in Callers}
               <=> \E c \in Callers : x \in Ids(chand[c])
        OBVIOUS
      <3>2. x \in UNION {Ids(hand[t]) : t \in Conns}
               <=> \E t \in Conns : x \in Ids(hand[t])
        OBVIOUS
      <3>3. QED
        BY <3>1, <3>2 DEF Held
    <2>2. ASSUME NEW b \in Index, x \in Ids(Contents[b])
          PROVE  \/ x \in Ids(Contents[OutBox])
                 \/ \E c \in Callers : x \in Ids(Contents[CallBox(c)])
                 \/ \E t \in Conns : x \in Ids(Contents[HandBox(t)])
      <3>1. \/ b = OutBox
            \/ \E c \in Callers : b = CallBox(c)
            \/ \E t \in Conns : b = HandBox(t)
        BY Indices
      <3>2. QED
        BY <2>2, <3>1, Zenon
    <2>3. (\E c \in Callers : x \in Ids(Contents[CallBox(c)]))
             <=> \E c \in Callers : x \in Ids(chand[c])
      BY ContentsAt, Zenon
    <2>4. (\E t \in Conns : x \in Ids(Contents[HandBox(t)]))
             <=> \E t \in Conns : x \in Ids(hand[t])
      BY ContentsAt, Zenon
    <2>5. Ids(Contents[OutBox]) = Ids(out)
      BY ContentsAt, Zenon
    <2>6. (\E b \in Index : x \in Ids(Contents[b]))
             <=> \/ x \in Ids(Contents[OutBox])
                 \/ \E c \in Callers : x \in Ids(Contents[CallBox(c)])
                 \/ \E t \in Conns : x \in Ids(Contents[HandBox(t)])
      BY <2>2, Indices
    <2>7. QED
      BY <2>1, <2>3, <2>4, <2>5, <2>6, Zenon
  <1>2. QED
    BY <1>1 DEF HeldWhere

LEMMA HeldNext == HeldWhere'
  BY HeldIn, PTL

\* A good step keeps the invariant and is one of Outbox.
Good == QInv' /\ [Box!Next]_(Box!vars)

LEMMA GoodSame ==
    ASSUME QInv', Counts' = Counts, calls' = calls, Held' = Held
    PROVE  Good
  <1>1. UNCHANGED Box!vars
    BY DEF Box!vars, Counts
  <1>2. QED
    BY <1>1 DEF Good

LEMMA GoodLoss ==
    ASSUME QInv', Counts' = Counts, calls' = calls, Held' \subseteq Held
    PROVE  Good
  <1>1. Box!Lose
    BY DEF Box!Lose, Counts
  <1>2. QED
    BY <1>1 DEF Good, Box!Next

LEMMA GoodWrite ==
    ASSUME QInv', NEW h \in 1 .. MaxCalls, h \in Held,
           Counts' = [Counts EXCEPT ![h] = @ + 1], calls' = calls,
           Held' \subseteq Held \ {h}
    PROVE  Good
  <1>1. h \in Held /\ Box!Write(h)
    BY DEF Box!Write, Counts
  <1>2. Box!Next
    BY <1>1 DEF Box!Next
  <1>3. QED
    BY <1>2 DEF Good

LEMMA GoodOffer ==
    ASSUME QInv', Counts' = Counts, calls < MaxCalls, calls' = calls + 1,
           Held' = Held \cup {calls'}
    PROVE  Good
  <1>1. Box!Offer
    BY DEF Box!Offer, Counts
  <1>2. QED
    BY <1>1 DEF Good, Box!Next

SameCounts == \A i \in 1 .. MaxCalls : Times(wire', i) = Times(wire, i)

LEMMA CountsSame == SameCounts => Counts' = Counts
  BY DEF SameCounts, Counts

\* A frame is sent on connection k.
LEMMA WireSends ==
    ASSUME FrameTypes, Counted, NEW k \in Conns, NEW f \in Frames \cup {Hello},
           wire' = [wire EXCEPT ![k] = @ \o <<f>>]
    PROVE  /\ Counted'
           /\ \A i \in 1 .. MaxCalls :
                Times(wire', i) = IF i = f.id THEN Times(wire, i) + 1
                                              ELSE Times(wire, i)
  <1> DEFINE S == Frames \cup {Hello}
  <1>1. wire \in [Conns -> Seq(S)] /\ f \in S
    BY DEF FrameTypes
  <1> HIDE DEF S
  <1>2. wire[k] \o <<f>> = Append(wire[k], f)
    BY <1>1, AppendIsConcat
  <1>3. wire' = [wire EXCEPT ![k] = Append(@, f)]
    BY <1>1, <1>2
  <1>4. Sending(Conns, S, wire, wire', k, f)
    BY <1>1, <1>3 DEF Sending
  <1>5. ASSUME NEW i, IsFiniteSet(Places(wire, i))
        PROVE  /\ IsFiniteSet(Places(wire', i))
               /\ f.id = i => Times(wire', i) = Times(wire, i) + 1
               /\ f.id # i => Times(wire', i) = Times(wire, i)
    BY <1>4, <1>5, SendCounts
  <1>6. \A i \in 1 .. MaxCalls : IsFiniteSet(Places(wire, i))
    BY DEF Counted
  <1>7. QED
    BY <1>5, <1>6 DEF Counted

-----------------------------------------------------------------------------
(* Each action is a good step.                                             *)

LEMMA CalmGood ==
    ASSUME QInv, UNCHANGED <<out, chand, hand, calls>>, Counted', SameCounts, Hands'
    PROVE  Good
  <1>1. Contents' = Contents /\ Held' = Held
    BY DEF Contents, Held
  <1>2. QInv'
    BY <1>1 DEF QInv
  <1>3. QED
    BY <1>1, <1>2, CountsSame, GoodSame

LEMMA QuietGood ==
    ASSUME QInv, UNCHANGED <<out, chand, hand, calls, wire>>, Hands'
    PROVE  Good
  <1>1. Counted' /\ SameCounts
    BY DEF QInv, Counted, SameCounts
  <1>2. QED
    BY <1>1, CalmGood

LEMMA ConnectGood ==
    ASSUME IInv, QInv, ConnectFails \/ ConnectOpens \/ ConnectNext \/ CloseCall
                      \/ CloseJoins \/ CloseDestroys
    PROVE  Good
  <1> USE DEF Conns, fields, net, services, callers, history
  <1>1. UNCHANGED <<out, chand, hand, calls, wire, cpc, sctx>>
    BY DEF ConnectNext, ConnectFails, ConnectOpens, ConnectRuns, ConnectSpawns,
           ConnectSpawnFails, CloseCall, CloseJoins, CloseDestroys, AppStep
  <1>2. \/ UNCHANGED <<spc, conns>> /\ (apc' \notin {"run", "spawn"}
                                       \/ apc \in {"run", "spawn"})
        \/ UNCHANGED spc /\ conns' = conns + 1
        \/ /\ spc' = [spc EXCEPT ![conns] = "check"] /\ UNCHANGED conns
           /\ apc = "spawn" /\ apc' = "idle"
    <2>1. CASE ConnectOpens
      BY <2>1 DEF ConnectOpens
    <2>2. CASE ConnectSpawns
      BY <2>2 DEF ConnectSpawns, AppStep
    <2>3. CASE ConnectFails
      BY <2>3 DEF ConnectFails, AppStep
    <2>4. CASE ConnectRuns
      BY <2>4 DEF ConnectRuns, AppStep
    <2>5. CASE ConnectSpawnFails
      BY <2>5 DEF ConnectSpawnFails, AppStep
    <2>6. CASE CloseCall \/ CloseJoins \/ CloseDestroys
      BY <2>6 DEF CloseCall, CloseJoins, CloseDestroys, AppStep
    <2>7. QED
      BY <2>1, <2>2, <2>3, <2>4, <2>5, <2>6 DEF ConnectNext
  <1>3. conns \in Nat /\ spc \in [Conns -> {"off", "check", "service", "pop", "send", "done"}]
    BY BoundsAssumption DEF IInv, ControlTypes, BoundsAssumption
  <1>4. Hands'
    <2>1. ASSUME NEW t \in Conns
          PROVE  /\ hand[t] = <<>> \/ (spc'[t] = "send" /\ One(hand[t]))
                 /\ InService(t)' => sctx[t] \in Conns
                 /\ t > conns' \/ (t = conns' /\ apc' \in {"run", "spawn"})
                        => spc'[t] = "off"
      <3>1. CASE UNCHANGED spc
        BY <1>1, <1>2, <1>3, <3>1 DEF QInv, Hands, InService
      <3>2. CASE /\ spc' = [spc EXCEPT ![conns] = "check"] /\ UNCHANGED conns
                 /\ apc = "spawn" /\ apc' = "idle"
        BY <1>1, <1>3, <3>2 DEF QInv, Hands, InService
      <3>3. QED
        BY <1>2, <3>1, <3>2
    <2>2. QED
      BY <1>1, <2>1 DEF QInv, Hands, One
  <1>5. QED
    BY <1>1, <1>4, QuietGood

\* close drops what is in the list.
LEMMA ClearGood ==
    ASSUME QInv, CloseClears
    PROVE  Good
  <1> DEFINE G == [Contents EXCEPT ![OutBox] = <<>>]
  <1>1. /\ out' = <<>> /\ apc' \notin {"run", "spawn"}
        /\ UNCHANGED <<chand, hand, calls, wire, cpc, spc, sctx, conns>>
    BY DEF CloseClears, AppStep, fields, net, services, callers
  <1>2. Boxes(Index, Frames, Contents, calls) /\ OutBox \in Index
    BY Indices DEF QInv
  <1>3. /\ Boxes(Index, Frames, G, calls)
        /\ \A x \in Index : Ids(G[x]) \subseteq Ids(Contents[x])
    <2>1. Cleared(Contents, G, OutBox)
      BY DEF Cleared
    <2> HIDE DEF G
    <2>2. \A x \in Index : Ids(G[x]) = IF x = OutBox THEN {} ELSE Ids(Contents[x])
      BY <1>2, <2>1, BoxClear
    <2>3. QED
      BY <1>2, <2>1, <2>2, BoxClear
  <1>4. Contents' = G
    <2>1. G = [x \in Index |-> G[x]] /\ G[OutBox] = out'
      BY <1>1, <1>2, ContentsAt
    <2>2. \A c \in Callers : G[CallBox(c)] = chand'[c]
      BY <1>1, Indices, ContentsAt
    <2>3. \A t \in Conns : G[HandBox(t)] = hand'[t]
      BY <1>1, Indices, ContentsAt
    <2> HIDE DEF G
    <2>4. QED
      BY <2>1, <2>2, <2>3, ContentsEqual
  <1> HIDE DEF G
  <1>5. Hands'
    BY <1>1 DEF QInv, Hands, One, InService
  <1>6. QInv' /\ SameCounts
    BY <1>1, <1>3, <1>4, <1>5 DEF QInv, Counted, SameCounts
  <1>7. Held' \subseteq Held
    BY <1>3, <1>4, HeldIn, HeldNext DEF HeldWhere
  <1>8. QED
    BY <1>1, <1>6, <1>7, CountsSame, GoodLoss

\* join and send: a new request, with its caller.
LEMMA CallGood ==
    ASSUME IInv, FInv, FInv', QInv, NEW c \in Callers, Call(c)
    PROVE  Good
  <1> DEFINE m == Message(c)
             b == CallBox(c)
             G == [Contents EXCEPT ![b] = Append(@, m)]
  <1>1. /\ calls' = calls + 1 /\ calls < MaxCalls /\ cpc[c] = "idle"
        /\ chand' = [chand EXCEPT ![c] = <<m>>]
        /\ cpc' = [cpc EXCEPT ![c] = "enqueue"]
        /\ UNCHANGED <<out, wire, hand, spc, sctx, conns, apc>>
    BY DEF Call, CallerStep, fields, net, services
  <1>2. m \in Frames /\ m.id = calls + 1
    BY <1>1 DEF Message, Frames, IInv, ControlTypes, FInv, FrameTypes
  <1> HIDE DEF m
  <1>3. chand[c] = <<>> /\ chand' \in [Callers -> Seq(Frames)] /\ chand'[c] = <<m>>
        /\ \A d \in Callers : d # c => chand'[d] = chand[d] /\ cpc'[d] = cpc[d]
    BY <1>1 DEF QInv, Hands, FInv, FrameTypes, IInv, ControlTypes
  <1>4. Boxes(Index, Frames, Contents, calls) /\ b \in Index
    BY Indices DEF QInv
  <1>5. G = [x \in Index |-> G[x]] /\ G[b] = Append(Contents[b], m)
        /\ \A x \in Index : x # b => G[x] = Contents[x]
    BY <1>4, ContentsAt
  <1>6. /\ Boxes(Index, Frames, G, calls + 1)
        /\ Ids(G[b]) = Ids(Contents[b]) \cup {calls + 1}
    <2>1. Added(Contents, G, b, m)
      BY DEF Added
    <2> HIDE DEF G, b
    <2>2. QED
      BY <1>2, <1>4, <2>1, BoxAdd
  <1>7. Contents' = G
    <2>1. G[OutBox] = out'
      BY <1>1, <1>5, Indices, ContentsAt
    <2>2. ASSUME NEW d \in Callers PROVE G[CallBox(d)] = chand'[d]
      <3>1. CASE d = c
        <4>1. G[b] = Append(<<>>, m)
          BY <1>3, <1>5, ContentsAt
        <4> HIDE DEF G
        <4>2. QED
          BY <1>3, <3>1, <4>1
      <3>2. CASE d # c
        <4>1. CallBox(d) # b /\ CallBox(d) \in Index
          BY <3>2, Indices
        <4> HIDE DEF G, b
        <4>2. QED
          BY <1>3, <1>5, <3>2, <4>1, ContentsAt
      <3>3. QED
        BY <3>1, <3>2
    <2>3. \A t \in Conns : G[HandBox(t)] = hand'[t]
      BY <1>1, <1>5, Indices, ContentsAt
    <2> HIDE DEF G
    <2>4. QED
      BY <1>5, <2>1, <2>2, <2>3, ContentsEqual
  <1>8. Hands'
    <2>1. ASSUME NEW d \in Callers
          PROVE  IF cpc'[d] = "enqueue" THEN One(chand'[d]) ELSE chand'[d] = <<>>
      BY <1>1, <1>2, <1>3 DEF QInv, Hands, One, IInv, ControlTypes
    <2>2. QED
      BY <1>1, <2>1 DEF QInv, Hands, One, InService
  <1>9. QInv' /\ SameCounts
    BY <1>1, <1>6, <1>7, <1>8 DEF QInv, Counted, SameCounts
  <1> HIDE DEF G
  <1>10. Held' = Held \cup {calls'}
    <2>1. ASSUME NEW x PROVE x \in Held' <=> x \in Held \cup {calls'}
      BY <1>1, <1>4, <1>5, <1>6, <1>7, HeldIn, HeldNext DEF HeldWhere
    <2>2. QED
      BY <2>1
  <1>11. QED
    BY <1>1, <1>9, <1>10, CountsSame, GoodOffer

\* The request of a caller goes to the end of the list.
LEMMA EnqueueGood ==
    ASSUME IInv, FInv, QInv, NEW c \in Callers, Enqueue(c)
    PROVE  Good
  <1> DEFINE b == CallBox(c)
  <1>1. /\ out' = out \o chand[c] /\ chand' = [chand EXCEPT ![c] = <<>>]
        /\ cpc[c] = "enqueue" /\ cpc' = [cpc EXCEPT ![c] = "wake"]
        /\ UNCHANGED <<calls, wire, hand, spc, sctx, conns, apc>>
    BY DEF Enqueue, CallerStep, fields, net, services
  <1>2. PICK f \in Frames : chand[c] = <<f>>
    BY <1>1 DEF QInv, Hands, One
  <1>3. /\ chand'[c] = <<>>
        /\ \A d \in Callers : d # c => chand'[d] = chand[d] /\ cpc'[d] = cpc[d]
    BY <1>1 DEF FInv, FrameTypes, IInv, ControlTypes
  <1>4. out' = Append(out, f)
    <2>1. out \in Seq(Frames) /\ out' = out \o <<f>>
      BY <1>1, <1>2 DEF FInv, FrameTypes
    <2>2. QED
      BY <2>1, AppendIsConcat
  <1>5. Boxes(Index, Frames, Contents, calls) /\ b \in Index /\ OutBox \in Index
        /\ b # OutBox /\ Contents[b] = <<f>>
    BY <1>2, Indices, ContentsAt DEF QInv
  <1> DEFINE G == [Contents EXCEPT ![b] = <<>>, ![OutBox] = Append(Contents[OutBox], f)]
  <1>6. G = [x \in Index |-> G[x]] /\ G[b] = <<>>
        /\ G[OutBox] = Append(Contents[OutBox], f)
        /\ \A x \in Index : x \notin {b, OutBox} => G[x] = Contents[x]
    BY <1>5, ContentsAt
  <1>7. /\ Boxes(Index, Frames, G, calls) /\ Ids(G[b]) = {}
        /\ Ids(G[OutBox]) = Ids(Contents[OutBox]) \cup Ids(Contents[b])
    <2>1. Moved(Contents, G, b, OutBox, f)
      BY DEF Moved
    <2> HIDE DEF G, b, OutBox
    <2>2. QED
      BY <1>5, <2>1, BoxMove, SMTT(30)
  <1>8. Contents' = G
    <2>1. G[OutBox] = out'
      BY <1>4, <1>6, ContentsAt
    <2>2. ASSUME NEW d \in Callers PROVE G[CallBox(d)] = chand'[d]
      BY <1>3, <1>6, Indices, ContentsAt
    <2>3. \A t \in Conns : G[HandBox(t)] = hand'[t]
      BY <1>1, <1>6, Indices, ContentsAt
    <2> HIDE DEF G
    <2>4. QED
      BY <1>6, <2>1, <2>2, <2>3, ContentsEqual
  <1>9. Hands'
    <2>1. ASSUME NEW d \in Callers
          PROVE  IF cpc'[d] = "enqueue" THEN One(chand'[d]) ELSE chand'[d] = <<>>
      BY <1>1, <1>3 DEF QInv, Hands, IInv, ControlTypes
    <2>2. QED
      BY <1>1, <2>1 DEF QInv, Hands, One, InService
  <1>10. QInv' /\ SameCounts
    BY <1>1, <1>7, <1>8, <1>9 DEF QInv, Counted, SameCounts
  <1> HIDE DEF G, b
  <1>11. Held' = Held
    <2>1. ASSUME NEW x PROVE x \in Held' <=> x \in Held
      BY <1>5, <1>6, <1>7, <1>8, HeldIn, HeldNext DEF HeldWhere
    <2>2. QED
      BY <2>1
  <1>12. QED
    BY <1>1, <1>10, <1>11, CountsSame, GoodSame

LEMMA WakeGood ==
    ASSUME IInv, QInv, NEW c \in Callers, Wake(c)
    PROVE  Good
  <1>1. /\ UNCHANGED <<out, chand, hand, calls, wire, spc, sctx, conns, apc>>
        /\ cpc[c] = "wake" /\ cpc' = [cpc EXCEPT ![c] = "idle"]
    BY DEF Wake, CallerStep, fields, services
  <1>2. Hands'
    BY <1>1 DEF QInv, Hands, One, InService, IInv, ControlTypes
  <1>3. QED
    BY <1>1, <1>2, QuietGood

\* The head of the list, if there is one, goes to the service thread.
LEMMA PopGood ==
    ASSUME IInv, FInv, QInv, NEW t \in Conns, Pops(t)
    PROVE  Good
  <1> DEFINE b == HandBox(t)
  <1>1. /\ spc[t] = "pop" /\ spc' = [spc EXCEPT ![t] = "send"]
        /\ hand' = [hand EXCEPT ![t] = First(out)]
        /\ out' = SubSeq(out, 2, Len(out))
        /\ UNCHANGED <<chand, calls, cpc, wire, sctx, conns, apc>>
    BY DEF Pops, ServiceStep, callers
  <1>2. out \in Seq(Frames) /\ hand \in [Conns -> Seq(Frames)]
        /\ spc' \in [Conns -> {"off", "check", "service", "pop", "send", "done"}]
        /\ spc'[t] = "send" /\ hand'[t] = First(out) /\ hand[t] = <<>>
        /\ \A u \in Conns : u # t => hand'[u] = hand[u] /\ spc'[u] = spc[u]
    BY <1>1 DEF FInv, FrameTypes, IInv, ControlTypes, QInv, Hands
  <1>3. First(out) = <<>> \/ One(First(out))
    BY <1>2 DEF First, One
  <1>4. Hands'
    <2>1. ASSUME NEW u \in Conns
          PROVE  /\ hand'[u] = <<>> \/ (spc'[u] = "send" /\ One(hand'[u]))
                 /\ InService(u)' => sctx'[u] \in Conns
                 /\ u > conns' \/ (u = conns' /\ apc' \in {"run", "spawn"})
                        => spc'[u] = "off"
      BY <1>1, <1>2, <1>3 DEF QInv, Hands, InService
    <2>2. QED
      BY <1>1, <2>1 DEF QInv, Hands, One
  <1>5. Counted' /\ SameCounts
    BY <1>1 DEF QInv, Counted, SameCounts
  <1>6. CASE out = <<>>
    <2>1. out' = out /\ First(out) = <<>>
      BY <1>1, <1>2, <1>6, OfParts DEF First
    <2>2. hand' = hand
      BY <1>1, <1>2, <2>1
    <2>3. QED
      BY <1>1, <1>4, <1>5, <2>1, <2>2, CalmGood
  <1>7. CASE out # <<>>
    <2>1. First(out) = <<Head(out)>> /\ Head(out) \in Frames
      BY <1>2, <1>7 DEF First
    <2>2. out' = Tail(out)
      BY <1>1, <1>2, <1>7
    <2> DEFINE G == [Contents EXCEPT ![OutBox] = Tail(@),
                                     ![b] = Append(@, Head(Contents[OutBox]))]
    <2>3. Boxes(Index, Frames, Contents, calls) /\ b \in Index /\ OutBox \in Index
          /\ b # OutBox /\ Contents[OutBox] = out /\ Contents[b] = <<>>
      BY <1>2, Indices, ContentsAt DEF QInv
    <2>4. /\ G = [x \in Index |-> G[x]] /\ G[OutBox] = Tail(out)
          /\ G[b] = Append(<<>>, Head(out))
          /\ \A x \in Index : x \notin {b, OutBox} => G[x] = Contents[x]
      BY <2>3, ContentsAt
    <2>5. /\ Boxes(Index, Frames, G, calls)
          /\ Ids(G[OutBox]) \cup Ids(G[b])
                = Ids(Contents[OutBox]) \cup Ids(Contents[b])
      <3>1. Passed(Contents, G, OutBox, b)
        BY DEF Passed
      <3>2. Contents[OutBox] # <<>>
        BY <1>7, <2>3
      <3> HIDE DEF G, b, OutBox
      <3>3. QED
        BY <2>3, <3>1, <3>2, BoxPass
    <2>6. Contents' = G
      <3>1. G[OutBox] = out'
        BY <2>2, <2>4
      <3>2. \A c \in Callers : G[CallBox(c)] = chand'[c]
        BY <1>1, <2>4, Indices, ContentsAt
      <3>3. ASSUME NEW u \in Conns PROVE G[HandBox(u)] = hand'[u]
        <4>1. CASE u = t
          <5>1. hand'[t] = Append(<<>>, Head(out))
            BY <1>2, <2>1
          <5> HIDE DEF G
          <5>2. QED
            BY <2>4, <4>1, <5>1
        <4>2. CASE u # t
          <5>1. HandBox(u) # b /\ HandBox(u) # OutBox /\ HandBox(u) \in Index
            BY <4>2, Indices
          <5> HIDE DEF G, b
          <5>2. QED
            BY <1>2, <2>4, <4>2, <5>1, ContentsAt
        <4>3. QED
          BY <4>1, <4>2
      <3> HIDE DEF G
      <3>4. QED
        BY <2>4, <3>1, <3>2, <3>3, ContentsEqual
    <2>7. QInv'
      BY <1>1, <1>4, <1>5, <2>5, <2>6 DEF QInv
    <2> HIDE DEF G, b
    <2>8. Held' = Held
      <3>1. ASSUME NEW x PROVE x \in Held' <=> x \in Held
        BY <2>3, <2>4, <2>5, <2>6, HeldIn, HeldNext DEF HeldWhere
      <3>2. QED
        BY <3>1
    <2>9. QED
      BY <1>1, <1>5, <2>7, <2>8, CountsSame, GoodSame
  <1>8. QED
    BY <1>6, <1>7

\* The service thread sends what it took, or finds the connection down.
LEMMA SendGood ==
    ASSUME IInv, FInv, QInv, NEW t \in Conns, Sends(t)
    PROVE  Good
  <1> DEFINE b == HandBox(t)
             k == sctx[t]
  <1>1. /\ spc[t] = "send" /\ spc' = [spc EXCEPT ![t] = "service"]
        /\ hand' = [hand EXCEPT ![t] = <<>>]
        /\ UNCHANGED <<out, chand, calls, cpc, sctx, conns, apc>>
        /\ wire' = wire \/ wire' = [wire EXCEPT ![k] = @ \o hand[t]]
    BY DEF Sends, ServiceStep, Sent, callers
  <1>2. k \in Conns
    BY <1>1 DEF QInv, Hands, InService
  <1>3. /\ hand \in [Conns -> Seq(Frames)] /\ wire \in [Conns -> Seq(Frames \cup {Hello})]
        /\ spc'[t] = "service" /\ hand'[t] = <<>>
        /\ \A u \in Conns : u # t => hand'[u] = hand[u] /\ spc'[u] = spc[u]
    BY <1>1 DEF FInv, FrameTypes, IInv, ControlTypes
  <1>4. Hands'
    <2>1. ASSUME NEW u \in Conns
          PROVE  /\ hand'[u] = <<>> \/ (spc'[u] = "send" /\ One(hand'[u]))
                 /\ InService(u)' => sctx'[u] \in Conns
                 /\ u > conns' \/ (u = conns' /\ apc' \in {"run", "spawn"})
                        => spc'[u] = "off"
      BY <1>1, <1>3 DEF QInv, Hands, InService
    <2>2. QED
      BY <1>1, <2>1 DEF QInv, Hands, One
  <1>5. CASE hand[t] = <<>>
    <2>1. hand' = hand
      BY <1>1, <1>3, <1>5
    <2>2. wire' = wire
      <3>1. wire[k] \o <<>> = wire[k]
        BY <1>2, <1>3, ConcatEmptySeq
      <3>2. QED
        BY <1>1, <1>3, <1>5, <3>1
    <2>3. QED
      BY <1>1, <1>4, <2>1, <2>2, QuietGood
  <1>6. CASE hand[t] # <<>>
    <2>1. PICK f \in Frames : hand[t] = <<f>>
      BY <1>6 DEF QInv, Hands, One
    <2> DEFINE G == [Contents EXCEPT ![b] = <<>>]
               h == f.id
    <2>2. Boxes(Index, Frames, Contents, calls) /\ b \in Index /\ b # OutBox
          /\ Contents[b] = <<f>>
      BY <2>1, Indices, ContentsAt DEF QInv
    <2>3. /\ G = [x \in Index |-> G[x]] /\ G[b] = <<>>
          /\ \A x \in Index : x # b => G[x] = Contents[x]
      BY <2>2, ContentsAt
    <2>4. /\ Boxes(Index, Frames, G, calls)
          /\ \A x \in Index : Ids(G[x]) = IF x = b THEN {} ELSE Ids(Contents[x])
      <3>1. Cleared(Contents, G, b)
        BY DEF Cleared
      <3> HIDE DEF G, b
      <3>2. QED
        BY <2>2, <3>1, BoxClear
    <2>5. Contents' = G
      <3>1. G[OutBox] = out'
        BY <1>1, <2>2, <2>3, Indices, ContentsAt
      <3>2. \A c \in Callers : G[CallBox(c)] = chand'[c]
        BY <1>1, <2>3, Indices, ContentsAt
      <3>3. ASSUME NEW u \in Conns PROVE G[HandBox(u)] = hand'[u]
        <4>1. CASE u = t
          <5> HIDE DEF G
          <5>1. QED
            BY <1>3, <2>3, <4>1
        <4>2. CASE u # t
          <5>1. HandBox(u) # b /\ HandBox(u) \in Index
            BY <4>2, Indices
          <5> HIDE DEF G, b
          <5>2. QED
            BY <1>3, <2>3, <4>2, <5>1, ContentsAt
        <4>3. QED
          BY <4>1, <4>2
      <3> HIDE DEF G
      <3>4. QED
        BY <2>3, <3>1, <3>2, <3>3, ContentsEqual
    <2>6. Ids(Contents[b]) = {h} /\ h \in 1 .. calls
      <3>1. Ids(Contents[b]) = {h}
        BY <2>2, NumberedFrames, IdsOne
      <3>2. QED
        BY <2>2, <3>1 DEF Boxes, OneEach
    <2>7. h \in 1 .. MaxCalls
      BY <2>1 DEF Frames
    <2> HIDE DEF G, b, h
    <2>8. h \in Held /\ Held' \subseteq Held \ {h}
      <3>1. \A x \in Index : x # b => h \notin Ids(Contents[x])
        BY <2>2, <2>6 DEF Boxes, OneEach
      <3>2. ASSUME NEW x \in Held' PROVE x \in Held \ {h}
        BY <2>4, <2>5, <3>1, HeldIn, HeldNext DEF HeldWhere
      <3>3. h \in Held
        BY <2>2, <2>6, HeldIn DEF HeldWhere
      <3>4. QED
        BY <3>2, <3>3
    <2>9. CASE wire' = wire
      <3>1. Counted' /\ SameCounts
        BY <2>9 DEF QInv, Counted, SameCounts
      <3>2. QInv'
        BY <1>1, <1>4, <2>4, <2>5, <3>1 DEF QInv
      <3>3. QED
        BY <1>1, <2>8, <3>1, <3>2, CountsSame, GoodLoss
    <2>10. CASE wire' = [wire EXCEPT ![k] = @ \o hand[t]]
      <3>1. wire' = [wire EXCEPT ![k] = @ \o <<f>>]
        BY <2>1, <2>10
      <3> HIDE DEF k
      <3>2. /\ Counted'
            /\ \A i \in 1 .. MaxCalls :
                 Times(wire', i) = IF i = h THEN Times(wire, i) + 1 ELSE Times(wire, i)
        BY <1>2, <3>1, WireSends DEF QInv, FInv, h
      <3>3. QInv'
        BY <1>1, <1>4, <2>4, <2>5, <3>2 DEF QInv
      <3>4. Counts' = [Counts EXCEPT ![h] = @ + 1]
        BY <2>7, <3>2 DEF Counts
      <3>5. QED
        BY <1>1, <2>7, <2>8, <3>3, <3>4, GoodWrite
    <2>11. QED
      BY <1>1, <2>9, <2>10
  <1>7. QED
    BY <1>5, <1>6

\* The other steps of a service thread move no request.
LEMMA ServeGood ==
    ASSUME IInv, FInv, QInv, NEW t \in Conns,
           Checks(t) \/ Returns(t) \/ Established(t) \/ Closed(t) \/ Writeable(t)
    PROVE  Good
  <1>1. /\ UNCHANGED <<out, chand, hand, calls, cpc, conns, apc>>
        /\ spc[t] \in {"check", "service"}
    BY DEF Checks, Returns, Established, Closed, Writeable, ServiceStep, callers
  <1>2. PICK p \in {"check", "service", "pop", "done"} :
            /\ spc' = [spc EXCEPT ![t] = p]
            /\ \/ sctx' = sctx /\ spc[t] = "service"
               \/ sctx' = [sctx EXCEPT ![t] = ctx] /\ (p = "service" => ctx # 0)
                  /\ p \in {"service", "done"}
    BY DEF Checks, Returns, Established, Closed, Writeable, ServiceStep
  <1>3. /\ spc'[t] = p /\ \A u \in Conns : u # t => spc'[u] = spc[u]
        /\ \A u \in Conns : u # t => sctx'[u] = sctx[u]
        /\ ctx # 0 => ctx \in Conns
    BY <1>2, BoundsAssumption DEF IInv, ControlTypes, Conns, BoundsAssumption
  <1>4. p \in {"service", "pop"} => sctx'[t] \in Conns
    BY <1>1, <1>2, <1>3 DEF QInv, Hands, InService, IInv, ControlTypes
  <1>5. Hands'
    <2>1. ASSUME NEW u \in Conns
          PROVE  /\ hand'[u] = <<>> \/ (spc'[u] = "send" /\ One(hand'[u]))
                 /\ InService(u)' => sctx'[u] \in Conns
                 /\ u > conns' \/ (u = conns' /\ apc' \in {"run", "spawn"})
                        => spc'[u] = "off"
      BY <1>1, <1>2, <1>3, <1>4 DEF QInv, Hands, InService
    <2>2. QED
      BY <1>1, <2>1 DEF QInv, Hands, One
  <1>6. Counted' /\ SameCounts
    <2>1. CASE wire' = wire
      BY <2>1 DEF QInv, Counted, SameCounts
    <2>2. CASE wire' # wire
      <3>1. wire' = [wire EXCEPT ![sctx[t]] = @ \o <<Hello>>] /\ sctx[t] \in Conns
        BY <2>2 DEF Checks, Returns, Established, Closed, Writeable, ServiceStep,
                    Sent, QInv, Hands, InService
      <3>2. Hello.id = 0 /\ \A i \in 1 .. MaxCalls : i # 0
        BY BoundsAssumption DEF Hello, BoundsAssumption
      <3>3. QED
        BY <3>1, <3>2, WireSends DEF QInv, FInv, SameCounts
    <2>3. QED
      BY <2>1, <2>2
  <1>7. QED
    BY <1>1, <1>5, <1>6, CalmGood

LEMMA StepGood == IInv /\ FInv /\ QInv /\ [Next]_vars => Good
  <1> SUFFICES ASSUME IInv, FInv, QInv, [Next]_vars PROVE Good
    OBVIOUS
  <1>1. FInv'
    BY StepFrames
  <1>2. ASSUME NEW c \in Callers, Call(c) \/ CallerNext(c) PROVE Good
    BY <1>1, <1>2, CallGood, EnqueueGood, WakeGood DEF CallerNext
  <1>3. ASSUME NEW t \in Conns, ServiceNext(t) PROVE Good
    BY <1>3, PopGood, SendGood, ServeGood DEF ServiceNext
  <1>4. CASE UNCHANGED vars \/ \E k \in Conns : LinkDrops(k)
    <2>1. UNCHANGED <<out, chand, hand, calls, wire, cpc, spc, sctx, conns, apc>>
      BY <1>4 DEF LinkDrops, vars, fields, net, services, callers
    <2>2. Hands'
      BY <2>1 DEF QInv, Hands, One, InService
    <2>3. QED
      BY <2>1, <2>2, QuietGood
  <1>5. QED
    BY <1>2, <1>3, <1>4, ConnectGood, ClearGood DEF Next, CloseNext

\* No request is anywhere at the start.
LEMMA InitRequests ==
    Init => /\ QInv /\ Held = {} /\ Counts = [i \in 1 .. MaxCalls |-> 0]
  <1> SUFFICES ASSUME Init
               PROVE  QInv /\ Held = {} /\ Counts = [i \in 1 .. MaxCalls |-> 0]
    OBVIOUS
  <1>1. ASSUME NEW x \in Index PROVE Contents[x] = <<>>
    <2>1. /\ out = <<>> /\ \A c \in Callers : chand[c] = <<>>
          /\ \A t \in Conns : hand[t] = <<>>
      BY DEF Init
    <2>2. CASE x = OutBox
      BY <2>1, <2>2, ContentsAt, Zenon
    <2>3. CASE \E c \in Callers : x = CallBox(c)
      BY <2>1, <2>3, ContentsAt, Zenon
    <2>4. CASE \E t \in Conns : x = HandBox(t)
      BY <2>1, <2>4, ContentsAt, Zenon
    <2>5. QED
      BY <2>2, <2>3, <2>4, Indices, Zenon
  <1>2. Boxes(Index, Frames, Contents, calls)
    <2>1. <<>> \in Seq(Frames)
      OBVIOUS
    <2>2. Contents \in [Index -> Seq(Frames)]
      BY <1>1, <2>1, ContentsAt
    <2>3. OneEach(Index, Contents, calls)
      BY <1>1, IdsEmpty DEF OneEach
    <2>4. calls \in Nat
      BY DEF Init
    <2>5. QED
      BY <2>2, <2>3, <2>4 DEF Boxes
  <1>3. ASSUME NEW i PROVE Times(wire, i) = 0 /\ IsFiniteSet(Places(wire, i))
    BY NothingSent DEF Init
  <1>4. Held = {}
    <2>1. \A x \in Index : Ids(Contents[x]) = {}
      BY <1>1, IdsEmpty
    <2>2. QED
      BY <2>1, HeldIn DEF HeldWhere
  <1>5. Hands
    BY DEF Init, Hands, InService
  <1>6. QED
    BY <1>2, <1>3, <1>4, <1>5 DEF QInv, Counted, Counts

THEOREM RequestInvariance == Spec => [](IInv /\ FInv /\ QInv)
  <1>1. Init => QInv
    BY InitRequests
  <1>2. IInv /\ FInv /\ QInv /\ [Next]_vars => QInv'
    BY StepGood DEF Good
  <1>3. QED
    BY InitInv, StepInv, FrameInit, StepFrames, <1>1, <1>2, PTL DEF Spec

\* Every step of the client is one of Outbox, or leaves it alone, in every
\* history: however connections end, no request is sent twice.
THEOREM RequestsSentOnce == Spec => AtMostOnce
  <1>1. Init => Box!Init
    BY InitRequests DEF Init, Box!Init, Counts
  <1>2. IInv /\ FInv /\ QInv /\ [Next]_vars => [Box!Next]_(Box!vars)
    BY StepGood DEF Good
  <1>3. QED
    BY <1>1, <1>2, RequestInvariance, PTL DEF Spec, AtMostOnce, Box!Spec

-----------------------------------------------------------------------------
(* The order of the requests of a caller.  What was sent on a connection   *)
(* is older than what its thread has in hand, that is older than the list, *)
(* and that is older than what the callers have not yet put there.  The    *)
(* list is taken from by several threads only in unsafe histories, and     *)
(* then each sends on a connection of its own: two threads that serve the  *)
(* same one are a misuse.                                                  *)

Older ==
    {p \in (Frames \cup {Hello}) \X (Frames \cup {Hello}) :
        p[1].kind = p[2].kind /\ p[1] # Hello => p[1].id < p[2].id}

Made(s, n) == \A i \in DOMAIN s : s[i].id <= n

OneServer ==
    ~misuse => \A t, u \in Conns :
                  t # u /\ InService(t) /\ InService(u) => sctx[t] # sctx[u]

SentInTurn ==
    \A k \in Conns :
        /\ Ordered(Older, wire[k]) /\ Made(wire[k], calls)
        /\ Ahead(Older, wire[k], out)
        /\ \A c \in Callers : Ahead(Older, wire[k], chand[c])

ListInTurn ==
    /\ Ordered(Older, out) /\ Made(out, calls)
    /\ \A c \in Callers : /\ Ahead(Older, out, chand[c])
                          /\ \A i \in DOMAIN chand[c] : chand[c][i].kind = c

HandsInTurn ==
    \A t \in Conns :
        /\ Made(hand[t], calls) /\ Ahead(Older, hand[t], out)
        /\ spc[t] = "send" => Ahead(Older, wire[sctx[t]], hand[t])
        /\ \A c \in Callers : Ahead(Older, hand[t], chand[c])

OInv == OneServer /\ SentInTurn /\ ListInTurn /\ HandsInTurn

LEMMA InitOrder == Init => OInv
  <1> SUFFICES ASSUME Init PROVE OInv
    OBVIOUS
  <1>1. /\ out = <<>> /\ \A k \in Conns : wire[k] = <<>> /\ hand[k] = <<>>
        /\ \A c \in Callers : chand[c] = <<>>
        /\ \A t \in Conns : spc[t] = "off"
    BY DEF Init
  <1>2. Made(<<>>, calls) /\ \A s : /\ Ahead(Older, s, <<>>) /\ Ahead(Older, <<>>, s)
                            /\ Ordered(Older, <<>>)
    BY AheadEmpty DEF Made
  <1> HIDE DEF Init
  <1>3. QED
    BY <1>1, <1>2 DEF OInv, OneServer, SentInTurn, ListInTurn, HandsInTurn, InService

\* Steps that move no frame.
LEMMA CalmOrder ==
    ASSUME OInv, UNCHANGED <<out, wire, hand, chand, calls>>, OneServer',
           \A t \in Conns : spc'[t] = "send" => spc[t] = "send" /\ sctx'[t] = sctx[t]
    PROVE  OInv'
  BY DEF OInv, SentInTurn, ListInTurn, HandsInTurn, Made

LEMMA ConnectOrder ==
    ASSUME IInv, QInv, OInv,
           ConnectFails \/ ConnectOpens \/ ConnectNext \/ CloseCall
              \/ CloseJoins \/ CloseDestroys
    PROVE  OInv'
  <1> USE DEF fields, net, services, callers, history
  <1>1. UNCHANGED <<out, wire, hand, chand, calls, sctx>> /\ ~misuse
    BY DEF ConnectNext, ConnectFails, ConnectOpens, ConnectRuns, ConnectSpawns,
           ConnectSpawnFails, CloseCall, CloseJoins, CloseDestroys, AppStep
  <1>2. UNCHANGED spc \/ spc' = [spc EXCEPT ![conns] = "check"]
    BY DEF ConnectNext, ConnectFails, ConnectOpens, ConnectRuns, ConnectSpawns,
           ConnectSpawnFails, CloseCall, CloseJoins, CloseDestroys, AppStep
  <1>3. \A t \in Conns : spc'[t] \in {spc[t], "check"}
    BY <1>2 DEF IInv, ControlTypes
  <1>4. OneServer'
    BY <1>1, <1>3 DEF OInv, OneServer, InService
  <1>5. QED
    BY <1>1, <1>3, <1>4, CalmOrder

\* close drops what is in the list: what is left keeps its order.
LEMMA ClearOrder ==
    ASSUME OInv, CloseClears PROVE OInv'
  <1>1. /\ out' = <<>>
        /\ UNCHANGED <<wire, hand, chand, calls, spc, sctx, misuse>>
    BY DEF CloseClears, AppStep, fields, net, services, callers, history
  <1>2. \A s : Ahead(Older, s, <<>>) /\ Ahead(Older, <<>>, s)
              /\ Ordered(Older, <<>>)
    BY AheadEmpty
  <1>3. OneServer'
    BY <1>1 DEF OInv, OneServer, InService
  <1>4. QED
    BY <1>1, <1>2, <1>3 DEF OInv, SentInTurn, ListInTurn, HandsInTurn, Made

\* A new request is younger than all before it.
LEMMA CallOrder ==
    ASSUME IInv, FInv, FInv', OInv, NEW c \in Callers, Call(c) PROVE OInv'
  <1> DEFINE m == Message(c)
  <1>1. /\ calls' = calls + 1 /\ chand' = [chand EXCEPT ![c] = <<m>>]
        /\ UNCHANGED <<out, wire, hand, spc, sctx, misuse>>
    BY DEF Call, CallerStep, net, services
  <1>2. m.id = calls + 1 /\ m.kind = c /\ calls \in Nat
    BY DEF Message, FInv, FrameTypes
  <1>3. m \in Frames
    BY <1>1 DEF Message, Frames, IInv, ControlTypes, FInv, FrameTypes, Call
  <1> HIDE DEF m
  <1>4. /\ chand'[c] = <<m>> /\ DOMAIN <<m>> = {1} /\ <<m>>[1] = m
        /\ \A d \in Callers : d # c => chand'[d] = chand[d]
    BY <1>1 DEF FInv, FrameTypes
  <1>5. ASSUME NEW s \in Seq(Frames \cup {Hello}), Made(s, calls)
        PROVE  Ahead(Older, s, <<m>>) /\ Made(s, calls')
    <2>1. ASSUME NEW i \in DOMAIN s PROVE <<s[i], m>> \in Older /\ s[i].id <= calls'
      <3>1. s[i] \in Frames \cup {Hello} /\ s[i].id <= calls
        BY <1>5 DEF Made
      <3>2. s[i].id \in Nat
        BY <3>1 DEF Frames, Hello
      <3>3. s[i].id < m.id /\ s[i].id <= calls'
        BY <1>1, <1>2, <3>1, <3>2
      <3>4. QED
        BY <1>3, <3>1, <3>3 DEF Older
    <2>2. QED
      BY <1>4, <2>1 DEF Ahead, Made
  <1>6. /\ out \in Seq(Frames \cup {Hello})
        /\ \A k \in Conns : /\ wire[k] \in Seq(Frames \cup {Hello})
                             /\ hand[k] \in Seq(Frames \cup {Hello})
    BY DEF FInv, FrameTypes
  <1>7. OneServer'
    BY <1>1 DEF OInv, OneServer, InService
  <1>8. ListInTurn'
    <2>1. Ahead(Older, out, <<m>>) /\ Made(out, calls')
      BY <1>5, <1>6 DEF OInv, ListInTurn
    <2>2. QED
      BY <1>1, <1>2, <1>4, <2>1 DEF OInv, ListInTurn, Made
  <1>9. SentInTurn'
    <2>1. \A k \in Conns : Ahead(Older, wire[k], <<m>>) /\ Made(wire[k], calls')
      BY <1>5, <1>6 DEF OInv, SentInTurn
    <2>2. QED
      BY <1>1, <1>4, <2>1 DEF OInv, SentInTurn, Made
  <1>10. HandsInTurn'
    <2>1. \A t \in Conns : Ahead(Older, hand[t], <<m>>) /\ Made(hand[t], calls')
      BY <1>5, <1>6 DEF OInv, HandsInTurn
    <2>2. QED
      BY <1>1, <1>4, <2>1 DEF OInv, HandsInTurn, Made
  <1>11. QED
    BY <1>7, <1>8, <1>9, <1>10 DEF OInv

\* The request of a caller goes behind those that are in the list.
LEMMA EnqueueOrder ==
    ASSUME IInv, FInv, QInv, OInv, NEW c \in Callers, Enqueue(c) PROVE OInv'
  <1> DEFINE S == Frames \cup {Hello}
  <1>1. /\ out' = out \o chand[c] /\ chand' = [chand EXCEPT ![c] = <<>>]
        /\ UNCHANGED <<wire, hand, calls, spc, sctx, misuse>> /\ cpc[c] = "enqueue"
    BY DEF Enqueue, CallerStep, net, services
  <1>2. PICK f \in Frames : chand[c] = <<f>>
    BY <1>1 DEF QInv, Hands, One
  <1>3. /\ DOMAIN <<f>> = {1} /\ <<f>>[1] = f /\ f.kind = c /\ f.id <= calls
        /\ <<f>> \in Seq(S)
    <2>1. f.kind = c
      BY <1>2 DEF OInv, ListInTurn
    <2>2. Ids(<<f>>) \subseteq 1 .. calls /\ f.id \in Ids(<<f>>)
      <3>1. Ids(Contents[CallBox(c)]) \subseteq 1 .. calls
        BY Indices DEF QInv, Boxes, OneEach
      <3>2. QED
        BY <1>2, <3>1, ContentsAt, NumberedFrames, IdsOne
    <2>3. QED
      BY <2>1, <2>2 DEF FInv, FrameTypes
  <1>4. /\ chand'[c] = <<>>
        /\ \A d \in Callers : d # c => chand'[d] = chand[d]
    BY <1>1 DEF FInv, FrameTypes
  <1>5. /\ out \in Seq(S)
        /\ \A k \in Conns : wire[k] \in Seq(S) /\ hand[k] \in Seq(S)
        /\ \A d \in Callers : chand[d] \in Seq(Frames)
    BY DEF FInv, FrameTypes
  <1> HIDE DEF S
  <1>6. \A s \in Seq(S) : Ahead(Older, s, out) /\ Ahead(Older, s, <<f>>)
                             => Ahead(Older, s, out')
    BY <1>1, <1>2, <1>3, <1>5, AheadConcat
  <1>7. Ordered(Older, out') /\ Made(out', calls')
    <2>1. Ordered(Older, out')
      BY <1>1, <1>2, <1>3, <1>5, OrderedOne, OrderedConcat DEF OInv, ListInTurn
    <2>2. Made(out', calls)
      <3>1. \A i \in DOMAIN out' : \/ i \in DOMAIN out /\ out'[i] = out[i]
                                   \/ i - Len(out) \in {1} /\ out'[i] = <<f>>[i - Len(out)]
        BY <1>1, <1>2, <1>3, <1>5, ConcatAt
      <3>2. QED
        BY <1>3, <3>1 DEF OInv, ListInTurn, Made
    <2>3. QED
      BY <1>1, <2>1, <2>2
  <1>8. ASSUME NEW d \in Callers PROVE Ahead(Older, out', chand'[d])
    <2>1. CASE d = c
      BY <1>4, <2>1, AheadEmpty
    <2>2. CASE d # c
      <3>1. ASSUME NEW j \in DOMAIN chand[d] PROVE <<f, chand[d][j]>> \in Older
        <4>1. chand[d][j] \in Frames /\ chand[d][j].kind = d
          BY <1>5 DEF OInv, ListInTurn
        <4>2. QED
          BY <1>3, <2>2, <4>1 DEF Older
      <3>2. Ahead(Older, <<f>>, chand[d])
        BY <1>3, <3>1 DEF Ahead
      <3>3. Ahead(Older, out', chand[d])
        BY <1>1, <1>2, <1>3, <1>5, <3>2, AheadConcat, ZenonT(30) DEF OInv, ListInTurn
      <3>4. QED
        BY <1>4, <2>2, <3>3
    <2>3. QED
      BY <2>1, <2>2
  <1>9. ListInTurn'
    <2>1. ASSUME NEW d \in Callers, NEW i \in DOMAIN chand'[d]
          PROVE  chand'[d][i].kind = d
      BY <1>4 DEF OInv, ListInTurn
    <2>2. QED
      BY <1>7, <1>8, <2>1 DEF ListInTurn
  <1>10. \A s, d : Ahead(Older, s, chand[d]) => Ahead(Older, s, chand'[d]) \/ d \notin Callers
    BY <1>4, AheadEmpty
  <1>11. SentInTurn'
    BY <1>1, <1>2, <1>5, <1>6, <1>10 DEF OInv, SentInTurn
  <1>12. HandsInTurn'
    BY <1>1, <1>2, <1>5, <1>6, <1>10 DEF OInv, HandsInTurn
  <1>13. OneServer'
    BY <1>1 DEF OInv, OneServer, InService
  <1>14. QED
    BY <1>9, <1>11, <1>12, <1>13 DEF OInv

\* The head of the list is the oldest of it.
LEMMA PopOrder ==
    ASSUME IInv, FInv, QInv, OInv, NEW t \in Conns, Pops(t) PROVE OInv'
  <1>1. /\ hand' = [hand EXCEPT ![t] = First(out)]
        /\ out' = SubSeq(out, 2, Len(out))
        /\ spc[t] = "pop" /\ spc' = [spc EXCEPT ![t] = "send"]
        /\ UNCHANGED <<wire, chand, calls, sctx, misuse>>
    BY DEF Pops, ServiceStep, callers
  <1>2. /\ out \in Seq(Frames) /\ hand'[t] = First(out) /\ spc'[t] = "send"
        /\ \A u \in Conns : u # t => hand'[u] = hand[u] /\ spc'[u] = spc[u]
    BY <1>1 DEF FInv, FrameTypes, IInv, ControlTypes
  <1>3. sctx[t] \in Conns
    BY <1>1 DEF QInv, Hands, InService
  <1>4. OneServer'
    BY <1>1, <1>2 DEF OInv, OneServer, InService
  <1>5. /\ Ordered(Older, out') /\ Made(out', calls) /\ Made(First(out), calls)
        /\ Ahead(Older, First(out), out')
        /\ \A s : Ahead(Older, s, out)
                  => Ahead(Older, s, out') /\ Ahead(Older, s, First(out))
        /\ \A s : Ahead(Older, out, s)
                  => Ahead(Older, out', s) /\ Ahead(Older, First(out), s)
    <2>1. CASE out = <<>>
      <3>1. out' = <<>> /\ First(out) = <<>>
        BY <1>1, <2>1 DEF First
      <3>2. QED
        BY <3>1, AheadEmpty DEF Made
    <2>2. CASE out # <<>>
      <3>1. First(out) = <<Head(out)>> /\ out' = Tail(out)
        BY <1>1, <1>2, <2>2 DEF First
      <3>2. Made(Tail(out), calls) /\ Made(<<Head(out)>>, calls)
        <4>1. /\ 1 \in DOMAIN out /\ \A i \in DOMAIN <<Head(out)>> : <<Head(out)>>[i] = out[1]
              /\ \A i \in DOMAIN Tail(out) : i + 1 \in DOMAIN out
                                              /\ Tail(out)[i] = out[i + 1]
          BY <1>2, <2>2
        <4>2. QED
          BY <4>1 DEF OInv, ListInTurn, Made
      <3>3. QED
        BY <1>2, <2>2, <3>1, <3>2, AheadParts DEF OInv, ListInTurn
    <2>3. QED
      BY <2>1, <2>2
  <1>6. ListInTurn'
    BY <1>1, <1>5 DEF OInv, ListInTurn
  <1>7. SentInTurn'
    BY <1>1, <1>5 DEF OInv, SentInTurn
  <1>8. HandsInTurn'
    <2>1. ASSUME NEW u \in Conns
          PROVE  /\ Made(hand'[u], calls) /\ Ahead(Older, hand'[u], out')
                 /\ spc'[u] = "send" => Ahead(Older, wire[sctx[u]], hand'[u])
                 /\ \A c \in Callers : Ahead(Older, hand'[u], chand[c])
      <3>1. CASE u = t
        BY <1>2, <1>3, <1>5, <3>1 DEF OInv, ListInTurn, SentInTurn
      <3>2. CASE u # t
        BY <1>2, <1>5, <3>2 DEF OInv, HandsInTurn
      <3>3. QED
        BY <3>1, <3>2
    <2>2. QED
      BY <1>1, <2>1 DEF HandsInTurn
  <1>9. QED
    BY <1>4, <1>6, <1>7, <1>8 DEF OInv

\* What a frame that is written on a connection has to be, so that the order
\* there and what is ahead of it stay.
LEMMA WriteOrder ==
    ASSUME FInv, OInv, NEW k \in Conns, NEW s \in Seq(Frames \cup {Hello}),
           wire' = [wire EXCEPT ![k] = @ \o s],
           UNCHANGED <<out, chand, calls>>,
           Ordered(Older, s), Made(s, calls), Ahead(Older, wire[k], s),
           Ahead(Older, s, out), \A c \in Callers : Ahead(Older, s, chand[c])
    PROVE  SentInTurn'
  <1> DEFINE S == Frames \cup {Hello}
  <1>1. wire \in [Conns -> Seq(S)] /\ s \in Seq(S)
    BY DEF FInv, FrameTypes
  <1> HIDE DEF S
  <1>2. wire'[k] = wire[k] \o s /\ wire[k] \in Seq(S)
        /\ \A j \in Conns : j # k => wire'[j] = wire[j]
    BY <1>1
  <1>3. Ordered(Older, wire'[k])
    BY <1>1, <1>2, OrderedConcat DEF OInv, SentInTurn
  <1>4. Made(wire'[k], calls)
    <2>1. \A i \in DOMAIN wire'[k] :
             \/ i \in DOMAIN wire[k] /\ wire'[k][i] = wire[k][i]
             \/ i - Len(wire[k]) \in DOMAIN s /\ wire'[k][i] = s[i - Len(wire[k])]
      BY <1>1, <1>2, ConcatAt
    <2>2. Made(wire[k], calls)
      BY DEF OInv, SentInTurn
    <2>3. QED
      BY <2>1, <2>2 DEF Made
  <1>5. /\ Ahead(Older, wire'[k], out)
        /\ \A c \in Callers : Ahead(Older, wire'[k], chand[c])
    BY <1>1, <1>2, AheadConcat DEF OInv, SentInTurn
  <1>6. QED
    BY <1>2, <1>3, <1>4, <1>5 DEF OInv, SentInTurn

\* The thread sends on the connection that it alone serves.
LEMMA SendOrder ==
    ASSUME IInv, FInv, QInv, OInv, NEW t \in Conns, Sends(t) PROVE OInv'
  <1> DEFINE k == sctx[t]
  <1>1. /\ spc[t] = "send" /\ spc' = [spc EXCEPT ![t] = "service"]
        /\ hand' = [hand EXCEPT ![t] = <<>>] /\ ~misuse
        /\ UNCHANGED <<out, chand, calls, sctx, misuse>>
        /\ wire' = wire \/ wire' = [wire EXCEPT ![k] = @ \o hand[t]]
    BY DEF Sends, ServiceStep, Sent, callers
  <1>2. k \in Conns
    BY <1>1 DEF QInv, Hands, InService
  <1>3. /\ hand \in [Conns -> Seq(Frames)] /\ spc'[t] = "service" /\ hand'[t] = <<>>
        /\ \A u \in Conns : u # t => hand'[u] = hand[u] /\ spc'[u] = spc[u]
    BY <1>1 DEF FInv, FrameTypes, IInv, ControlTypes
  <1>4. OneServer'
    BY <1>1, <1>3 DEF OInv, OneServer, InService
  <1>5. ListInTurn'
    BY <1>1 DEF OInv, ListInTurn
  <1>6. /\ SentInTurn'
        /\ \A j \in Conns : j # k => wire'[j] = wire[j]
    <2>1. CASE wire' = wire
      BY <1>1, <2>1 DEF OInv, SentInTurn
    <2>2. CASE wire' = [wire EXCEPT ![k] = @ \o hand[t]]
      <3>1. /\ Made(hand[t], calls) /\ Ahead(Older, wire[k], hand[t])
            /\ Ahead(Older, hand[t], out)
            /\ \A c \in Callers : Ahead(Older, hand[t], chand[c])
        BY <1>1 DEF OInv, HandsInTurn
      <3>2. Ordered(Older, hand[t])
        <4>1. hand[t] = <<>> \/ \E f \in Frames : hand[t] = <<f>>
          BY DEF QInv, Hands, One
        <4>2. QED
          BY <4>1, AheadEmpty, OrderedOne
      <3>3. hand[t] \in Seq(Frames \cup {Hello})
        BY <1>3
      <3>4. \A j \in Conns : j # k => wire'[j] = wire[j]
        BY <2>2 DEF FInv, FrameTypes
      <3> HIDE DEF k
      <3>5. QED
        BY <1>1, <1>2, <2>2, <3>1, <3>2, <3>3, <3>4, WriteOrder
    <2>3. QED
      BY <1>1, <2>1, <2>2
  <1>7. HandsInTurn'
    <2>1. ASSUME NEW u \in Conns
          PROVE  /\ Made(hand'[u], calls) /\ Ahead(Older, hand'[u], out)
                 /\ spc'[u] = "send" => Ahead(Older, wire'[sctx[u]], hand'[u])
                 /\ \A c \in Callers : Ahead(Older, hand'[u], chand[c])
      <3>1. CASE u = t
        BY <1>3, <3>1, AheadEmpty DEF Made
      <3>2. CASE u # t
        <4>1. spc[u] = "send" => sctx[u] \in Conns /\ sctx[u] # k
          BY <1>1, <3>2 DEF OInv, OneServer, InService, QInv, Hands
        <4>2. QED
          BY <1>3, <1>6, <3>2, <4>1 DEF OInv, HandsInTurn
      <3>3. QED
        BY <3>1, <3>2
    <2>2. QED
      BY <1>1, <2>1 DEF HandsInTurn
  <1>8. QED
    BY <1>4, <1>5, <1>6, <1>7 DEF OInv

\* The hello is nobody's request: it may come anywhere.
LEMMA HelloAnywhere ==
    ASSUME NEW s \in Seq(Frames \cup {Hello})
    PROVE  Ahead(Older, s, <<Hello>>) /\ Ahead(Older, <<Hello>>, s)
  <1>1. DOMAIN <<Hello>> = {1} /\ <<Hello>>[1] = Hello
    OBVIOUS
  <1>2. ASSUME NEW f \in Frames \cup {Hello}
        PROVE  <<f, Hello>> \in Older /\ <<Hello, f>> \in Older
    <2>1. f = Hello \/ f.kind # Hello.kind
      BY CallersAssumption DEF Frames, Hello, CallersAssumption
    <2>2. QED
      BY <2>1 DEF Older
  <1>3. \A i \in DOMAIN s : s[i] \in Frames \cup {Hello}
    OBVIOUS
  <1> HIDE DEF Hello
  <1>4. QED
    BY <1>1, <1>2, <1>3 DEF Ahead

LEMMA WriteableOrder ==
    ASSUME IInv, FInv, QInv, OInv, NEW t \in Conns, Writeable(t) PROVE OInv'
  <1> DEFINE k == sctx[t]
  <1>1. /\ spc[t] = "service" /\ spc' = [spc EXCEPT ![t] = "pop"]
        /\ UNCHANGED <<out, chand, hand, calls, sctx, misuse>>
        /\ wire' = wire \/ wire' = [wire EXCEPT ![k] = @ \o <<Hello>>]
    BY DEF Writeable, ServiceStep, Sent, callers
  <1>2. k \in Conns
    BY <1>1 DEF QInv, Hands, InService
  <1>3. spc'[t] = "pop" /\ \A u \in Conns : u # t => spc'[u] = spc[u]
    BY <1>1 DEF IInv, ControlTypes
  <1>4. OneServer'
    BY <1>1, <1>3 DEF OInv, OneServer, InService
  <1>5. CASE wire' = wire
    BY <1>1, <1>3, <1>4, <1>5, CalmOrder
  <1>6. CASE wire' = [wire EXCEPT ![k] = @ \o <<Hello>>]
    <2> DEFINE S == Frames \cup {Hello}
               h == <<Hello>>
    <2>1. /\ out \in Seq(S) /\ h \in Seq(S) /\ wire \in [Conns -> Seq(S)]
          /\ \A u \in Conns : hand[u] \in Seq(S)
          /\ \A c \in Callers : chand[c] \in Seq(S)
      BY DEF FInv, FrameTypes
    <2>2. Made(h, calls)
      BY DEF Made, Hello, FInv, FrameTypes
    <2>3. Ordered(Older, h) /\ \A s \in Seq(S) : Ahead(Older, s, h) /\ Ahead(Older, h, s)
      BY HelloAnywhere, OrderedOne
    <2> HIDE DEF S, k, h
    <2>4. wire' = [wire EXCEPT ![k] = @ \o h]
      BY <1>6 DEF h
    <2>5. SentInTurn'
      BY <1>1, <1>2, <2>1, <2>2, <2>3, <2>4, WriteOrder DEF S
    <2>6. ListInTurn'
      BY <1>1 DEF OInv, ListInTurn
    <2>7. HandsInTurn'
      <3>1. ASSUME NEW u \in Conns, spc'[u] = "send"
            PROVE  Ahead(Older, wire'[sctx[u]], hand[u])
        <4>1. spc[u] = "send" /\ sctx[u] \in Conns
              /\ Ahead(Older, wire[sctx[u]], hand[u])
          BY <1>3, <3>1 DEF OInv, HandsInTurn, QInv, Hands, InService
        <4>2. CASE sctx[u] = k
          <5>1. wire'[k] = wire[k] \o h /\ wire[k] \in Seq(S)
            BY <1>2, <2>1, <2>4
          <5>2. Ahead(Older, h, hand[u])
            BY <2>1, <2>3
          <5>3. QED
            BY <2>1, <4>1, <4>2, <5>1, <5>2, AheadConcat
        <4>3. CASE sctx[u] # k
          BY <1>2, <2>1, <2>4, <4>1, <4>3
        <4>4. QED
          BY <4>2, <4>3
      <3>2. QED
        BY <1>1, <3>1 DEF OInv, HandsInTurn
    <2>8. QED
      BY <1>4, <2>5, <2>6, <2>7 DEF OInv
  <1>7. QED
    BY <1>1, <1>5, <1>6

\* A thread that would serve a connection besides another one is a misuse.
LEMMA CheckOrder ==
    ASSUME IInv, OInv, NEW t \in Conns, Checks(t) PROVE OInv'
  <1>1. /\ spc' = [spc EXCEPT ![t] = IF running /\ ctx # 0 THEN "service" ELSE "done"]
        /\ sctx' = [sctx EXCEPT ![t] = ctx] /\ ~misuse
        /\ misuse' = \E u \in Conns \ {t} : InService(t)' /\ InService(u)
                                               /\ sctx[u] = ctx
        /\ UNCHANGED <<out, wire, hand, chand, calls>>
    BY DEF Checks, ServiceStep, callers
  <1>2. /\ spc'[t] # "send" /\ sctx'[t] = ctx
        /\ \A u \in Conns : u # t => spc'[u] = spc[u] /\ sctx'[u] = sctx[u]
    BY <1>1 DEF IInv, ControlTypes
  <1>3. OneServer'
    <2>1. ASSUME ~misuse', NEW u \in Conns, NEW v \in Conns, u # v,
                 InService(u)', InService(v)'
          PROVE  sctx'[u] # sctx'[v]
      <3>1. ASSUME NEW w \in Conns, w # t, InService(w)' PROVE InService(w)
        BY <1>2, <3>1 DEF InService
      <3>2. CASE u = t
        BY <1>1, <1>2, <2>1, <3>1, <3>2
      <3>3. CASE v = t
        BY <1>1, <1>2, <2>1, <3>1, <3>3
      <3>4. CASE u # t /\ v # t
        BY <1>1, <1>2, <2>1, <3>1, <3>4 DEF OInv, OneServer
      <3>5. QED
        BY <3>2, <3>3, <3>4
    <2>2. QED
      BY <2>1 DEF OneServer
  <1>4. QED
    BY <1>1, <1>2, <1>3, CalmOrder

\* Steps that change neither frames nor contexts.
LEMMA QuietOrder ==
    ASSUME IInv, OInv, UNCHANGED <<out, wire, hand, chand, calls, sctx>>, ~misuse,
           \A t \in Conns : InService(t)' => InService(t),
           \A t \in Conns : spc'[t] = "send" => spc[t] = "send"
    PROVE  OInv'
  <1>1. OneServer'
    BY DEF OInv, OneServer
  <1>2. QED
    BY <1>1, CalmOrder

LEMMA StepOrder == IInv /\ FInv /\ QInv /\ OInv /\ [Next]_vars => OInv'
  <1> SUFFICES ASSUME IInv, FInv, QInv, OInv, [Next]_vars PROVE OInv'
    OBVIOUS
  <1>1. FInv'
    BY StepFrames
  <1>2. ASSUME NEW c \in Callers, Call(c) \/ CallerNext(c) PROVE OInv'
    <2>1. CASE Wake(c)
      <3>1. UNCHANGED <<out, wire, hand, chand, calls, sctx, spc>> /\ ~misuse
        BY <2>1 DEF Wake, CallerStep, services
      <3>2. QED
        BY <3>1, QuietOrder DEF InService
    <2>2. QED
      BY <1>1, <1>2, <2>1, CallOrder, EnqueueOrder DEF CallerNext
  <1>3. ASSUME NEW t \in Conns, ServiceNext(t) PROVE OInv'
    <2>1. CASE Returns(t) \/ Established(t) \/ Closed(t)
      <3>1. /\ UNCHANGED <<out, wire, hand, chand, calls, sctx>> /\ ~misuse
            /\ spc[t] = "service"
            /\ \E p \in {"check", "service"} : spc' = [spc EXCEPT ![t] = p]
        BY <2>1 DEF Returns, Established, Closed, ServiceStep, callers
      <3>2. QED
        BY <3>1, QuietOrder DEF InService, IInv, ControlTypes
    <2>2. QED
      BY <1>3, <2>1, CheckOrder, WriteableOrder, PopOrder, SendOrder
      DEF ServiceNext
  <1>4. ASSUME NEW k \in Conns, LinkDrops(k) PROVE OInv'
    <2>1. UNCHANGED <<out, wire, hand, chand, calls, sctx, spc>> /\ ~misuse
      BY <1>4 DEF LinkDrops, services, callers
    <2>2. QED
      BY <2>1, QuietOrder DEF InService
  <1>5. CASE UNCHANGED vars
    <2>1. UNCHANGED <<out, wire, hand, chand, calls, sctx, spc, misuse>>
      BY <1>5 DEF vars, net, services, callers, history
    <2>2. OneServer'
      BY <2>1 DEF OInv, OneServer, InService
    <2>3. QED
      BY <2>1, <2>2, CalmOrder
  <1>6. QED
    BY <1>2, <1>3, <1>4, <1>5, ConnectOrder, ClearOrder DEF Next, CloseNext

\* On every connection the requests of a caller are in the order of its
\* calls, in every history up to the use of something freed: connections that
\* are lost, and threads left over from them, change nothing of it.
THEOREM RequestsInOrder == Spec => []InOrder
  <1>1. FInv /\ OInv => InOrder
    <2> SUFFICES ASSUME FInv, OInv PROVE InOrder
      OBVIOUS
    <2>1. ASSUME NEW k \in Conns, NEW i \in DOMAIN wire[k], NEW j \in DOMAIN wire[k],
                 i < j, wire[k][i].kind = wire[k][j].kind, wire[k][i] # Hello
          PROVE  wire[k][i].id < wire[k][j].id
      BY <2>1 DEF OInv, SentInTurn, Ordered, Older
    <2>2. QED
      BY <2>1 DEF InOrder
  <1>2. Init => IInv /\ FInv /\ QInv /\ OInv
    BY InitInv, FrameInit, InitRequests, InitOrder
  <1>3. IInv /\ FInv /\ QInv /\ OInv /\ [Next]_vars => IInv' /\ FInv' /\ QInv' /\ OInv'
    BY StepInv, StepFrames, StepGood, StepOrder DEF Good
  <1>4. QED
    BY <1>1, <1>2, <1>3, PTL DEF Spec
=============================================================================
