---------------------------- MODULE GoRestProofs ----------------------------
(***************************************************************************)
(* Proofs about GoRest, for any number of callers and any tokens.          *)
(***************************************************************************)
EXTENDS GoRest, TLAPS

(***************************************************************************)
(* What holds of a call at each of its places.  Between the two reads of   *)
(* the token nothing may have changed it unless SetToken has overlapped;   *)
(* before it is sent, nothing is done.                                     *)
(***************************************************************************)
AtAuth(c) ==
    pc[c] \in {"auth", "bearer"} =>
        /\ header[c] = NoHeader /\ served[c] = 0 /\ result[c] = "none"
        /\ ~raced[c] => setting = NotSetting /\ token = began[c]

AtBearer(c) ==
    pc[c] = "bearer" =>
        /\ method[c] \in RequireAuth
        /\ ~raced[c] => began[c] # NoToken

AtSend(c) ==
    pc[c] \in {"send", "wait"} =>
        /\ result[c] = "none"
        /\ ~raced[c] => header[c] = Authorized(c)
        /\ method[c] \notin RequireAuth => header[c] = NoHeader

AtSendServed(c) ==
    pc[c] = "send" => /\ served[c] < MaxServed
                      /\ method[c] \in Posts => served[c] = 0

AtWait(c) ==
    pc[c] = "wait" => /\ status[c] \in Statuses
                      /\ status[c] < 400 => served[c] >= 1

AtEnd(c) ==
    pc[c] # "idle" =>
        /\ result[c] = "ok" => served[c] >= 1 /\ status[c] = 200
        /\ method[c] \in Posts => served[c] <= 1

CallInv(c) ==
    AtAuth(c) /\ AtBearer(c) /\ AtSend(c) /\ AtSendServed(c) /\ AtWait(c) /\ AtEnd(c)

IInv == TypeOK /\ \A c \in Callers : CallInv(c)

USE TokensAssumption, ServedAssumption
USE DEF TokensAssumption, ServedAssumption, Statuses, Posts, Methods, RequireAuth, server

LEMMA InitHolds == Init => IInv
  BY DEF Init, IInv, TypeOK, CallInv, AtAuth, AtBearer, AtSend, AtSendServed,
         AtWait, AtEnd

LEMMA TypeStep == ASSUME IInv, Next PROVE TypeOK'
  <1>1. ASSUME NEW c \in Callers, CallNext(c) PROVE TypeOK'
    <2>1. ASSUME NEW m \in Methods, Begin(c, m) PROVE TypeOK'
      BY <2>1 DEF Begin, CallerStep, IInv, TypeOK
    <2>2. CASE RequestFails(c)
      BY <2>2 DEF RequestFails, Returns, CallerStep, IInv, TypeOK
    <2>3. CASE NoTokenSent(c)
      BY <2>3 DEF NoTokenSent, CallerStep, IInv, TypeOK
    <2>4. CASE TokenFound(c)
      BY <2>4 DEF TokenFound, CallerStep, IInv, TypeOK
    <2>5. CASE Bearer(c)
      BY <2>5 DEF Bearer, CallerStep, ReadToken, IInv, TypeOK
    <2>6. CASE Serve(c)
      BY <2>6 DEF Serve, CallerStep, IInv, CallInv, AtSendServed, TypeOK
    <2>7. CASE GetAgain(c)
      BY <2>7 DEF GetAgain, CallerStep, IInv, TypeOK
    <2>8. CASE DoFails(c)
      BY <2>8 DEF DoFails, Returns, CallerStep, IInv, TypeOK
    <2>9. CASE RefusedByServer(c) \/ UnmarshalFails(c)
      BY <2>9 DEF RefusedByServer, UnmarshalFails, Returns, CallerStep, IInv, TypeOK
    <2>10. CASE Succeeds(c)
      BY <2>10 DEF Succeeds, Returns, CallerStep, IInv, TypeOK
    <2>11. CASE Finish(c)
      BY <2>11 DEF Finish, CallerStep, IInv, TypeOK
    <2>12. QED
      BY <1>1, <2>1, <2>2, <2>3, <2>4, <2>5, <2>6, <2>7, <2>8, <2>9, <2>10,
         <2>11 DEF CallNext
  <1>2. ASSUME NEW t \in Tokens \cup {NoToken}, SetToken(t) PROVE TypeOK'
    BY <1>2 DEF SetToken, IInv, TypeOK
  <1>3. CASE TokenSet
    BY <1>3 DEF TokenSet, IInv, TypeOK
  <1>4. QED
    BY <1>1, <1>2, <1>3 DEF Next

\* What one call does leaves the others as they were.
LEMMA OthersStep ==
    ASSUME IInv, NEW c \in Callers, CallNext(c), NEW d \in Callers, d # c
    PROVE  CallInv(d)'
  <1>1. /\ UNCHANGED <<token, setting>>
        /\ pc'[d] = pc[d] /\ method'[d] = method[d] /\ header'[d] = header[d]
        /\ served'[d] = served[d] /\ status'[d] = status[d]
        /\ result'[d] = result[d] /\ began'[d] = began[d] /\ raced'[d] = raced[d]
    <2>1. ASSUME NEW m \in Methods, Begin(c, m)
          PROVE  /\ UNCHANGED <<token, setting>>
                 /\ pc'[d] = pc[d] /\ method'[d] = method[d]
                 /\ header'[d] = header[d] /\ served'[d] = served[d]
                 /\ status'[d] = status[d] /\ result'[d] = result[d]
                 /\ began'[d] = began[d] /\ raced'[d] = raced[d]
      <3>1. raced' = [raced EXCEPT ![c] = setting # NotSetting]
        BY <2>1, Zenon DEF Begin
      <3>2. raced'[d] = raced[d]
        <4>1. raced \in [Callers -> BOOLEAN]
          BY DEF IInv, TypeOK
        <4>2. QED
          BY <3>1, <4>1, Zenon
      <3>3. QED
        BY <2>1, <3>2 DEF Begin, CallerStep, IInv, TypeOK
    <2>2. CASE ~\E m \in Methods : Begin(c, m)
      BY <2>2 DEF CallNext, RequestFails, NoTokenSent, TokenFound, Bearer, Serve,
             GetAgain, DoFails, RefusedByServer, UnmarshalFails, Succeeds, Finish,
             Returns, CallerStep, IInv, TypeOK
    <2>3. QED
      BY <2>1, <2>2
  <1>2. CallInv(d)
    BY DEF IInv
  <1>3. QED
    BY <1>1, <1>2 DEF CallInv, AtAuth, AtBearer, AtSend, AtSendServed, AtWait,
                      AtEnd, Authorized

LEMMA CallStep ==
    ASSUME IInv, NEW c \in Callers, CallNext(c) PROVE CallInv(c)'
  <1> USE DEF CallInv
  <1>0. TypeOK /\ CallInv(c)
    BY DEF IInv
  <1>1. ASSUME NEW m \in Methods, Begin(c, m) PROVE CallInv(c)'
    <2>1. ~raced'[c] => setting = NotSetting
      <3>1. raced \in [Callers -> BOOLEAN]
        BY <1>0 DEF TypeOK
      <3>2. raced' = [raced EXCEPT ![c] = setting # NotSetting]
        BY <1>1, Zenon DEF Begin
      <3>3. QED
        BY <3>1, <3>2, Zenon
    <2>2. /\ pc'[c] = "auth" /\ UNCHANGED <<token, setting>>
          /\ header'[c] = NoHeader /\ served'[c] = 0 /\ result'[c] = "none"
          /\ began'[c] = token
      BY <1>0, <1>1 DEF Begin, CallerStep, TypeOK
    <2>3. QED
      BY <2>1, <2>2 DEF AtAuth, AtBearer, AtSend, AtSendServed, AtWait, AtEnd
  <1>2. ASSUME NEW from \in {"auth", "send", "wait"}, Returns(c, from, "error")
        PROVE  CallInv(c)'
    BY <1>0, <1>2 DEF Returns, CallerStep, TypeOK, AtAuth, AtBearer, AtSend,
                      AtSendServed, AtWait, AtEnd
  <1>3. CASE NoTokenSent(c)
    BY <1>0, <1>3 DEF NoTokenSent, ReadToken, WantsToken, CallerStep, TypeOK,
        Authorized, AtAuth, AtBearer, AtSend, AtSendServed, AtWait, AtEnd
  <1>4. CASE TokenFound(c)
    BY <1>0, <1>4 DEF TokenFound, ReadToken, WantsToken, CallerStep, TypeOK,
        AtAuth, AtBearer, AtSend, AtSendServed, AtWait, AtEnd
  <1>5. CASE Bearer(c)
    BY <1>0, <1>5 DEF Bearer, ReadToken, CallerStep, TypeOK, Authorized,
        AtAuth, AtBearer, AtSend, AtSendServed, AtWait, AtEnd
  <1>6. CASE Serve(c)
    BY <1>0, <1>6 DEF Serve, CallerStep, TypeOK, Authorized,
        AtAuth, AtBearer, AtSend, AtSendServed, AtWait, AtEnd
  <1>7. CASE GetAgain(c)
    BY <1>0, <1>7 DEF GetAgain, CallerStep, TypeOK, Authorized,
        AtAuth, AtBearer, AtSend, AtSendServed, AtWait, AtEnd
  <1>8. CASE Succeeds(c)
    BY <1>0, <1>8 DEF Succeeds, Refused, Returns, CallerStep, TypeOK,
        AtAuth, AtBearer, AtSend, AtSendServed, AtWait, AtEnd
  <1>9. CASE Finish(c)
    BY <1>0, <1>9 DEF Finish, CallerStep, TypeOK, AtAuth, AtBearer, AtSend,
                      AtSendServed, AtWait, AtEnd
  <1>10. QED
    BY <1>1, <1>2, <1>3, <1>4, <1>5, <1>6, <1>7, <1>8, <1>9
    DEF CallNext, RequestFails, DoFails, RefusedByServer, UnmarshalFails

\* SetToken marks the calls that are under way; the rest of a call is its own.
LEMMA TokenStep ==
    ASSUME IInv, NEW c \in Callers,
           TokenSet \/ \E t \in Tokens \cup {NoToken} : SetToken(t)
    PROVE  CallInv(c)'
  <1>0. TypeOK /\ CallInv(c)
    BY DEF IInv
  <1>1. CASE TokenSet
    BY <1>0, <1>1 DEF TokenSet, TypeOK, CallInv, AtAuth, AtBearer, AtSend,
                      AtSendServed, AtWait, AtEnd, Authorized
  <1>2. ASSUME NEW t \in Tokens \cup {NoToken}, SetToken(t) PROVE CallInv(c)'
    <2>1. pc[c] # "idle" => raced'[c]
      BY <1>2, Zenon DEF SetToken
    <2>2. UNCHANGED <<token, pc, method, header, served, status, result, began>>
      BY <1>2 DEF SetToken
    <2>3. QED
      BY <1>0, <2>1, <2>2 DEF CallInv, AtAuth, AtBearer, AtSend, AtSendServed,
                              AtWait, AtEnd, Authorized
  <1>3. QED
    BY <1>1, <1>2

THEOREM RestInvariance == Spec => []IInv
  <1>1. IInv /\ [Next]_vars => IInv'
    <2>1. ASSUME IInv, Next PROVE IInv'
      <3>1. TypeOK'
        BY <2>1, TypeStep
      <3>2. ASSUME NEW c \in Callers PROVE CallInv(c)'
        BY <2>1, CallStep, OthersStep, TokenStep DEF Next
      <3>3. QED
        BY <3>1, <3>2 DEF IInv
    <2>2. ASSUME IInv, UNCHANGED vars PROVE IInv'
      BY <2>2 DEF vars, IInv, TypeOK, CallInv, AtAuth, AtBearer, AtSend,
                  AtSendServed, AtWait, AtEnd, Authorized
    <2>3. QED
      BY <2>1, <2>2
  <1>2. QED
    BY InitHolds, <1>1, PTL DEF Spec

\* The types hold, and a call that has returned has a result.
THEOREM RestTypes == Spec => []TypeOK
  <1>1. IInv => TypeOK
    BY DEF IInv
  <1>2. QED
    BY <1>1, RestInvariance, PTL

\* The token that goes out is the one set before the call, or none, unless
\* SetToken overlapped the call.
THEOREM TokenIsRight == Spec => []HeaderRight
  <1>1. IInv => HeaderRight
    BY DEF IInv, CallInv, AtSend, HeaderRight
  <1>2. QED
    BY <1>1, RestInvariance, PTL

\* What changes the server is done at most once, and once if the call says so.
THEOREM ChangesDoneOnce == Spec => []DoneOnce
  <1>1. IInv => DoneOnce
    BY DEF IInv, CallInv, AtEnd, DoneOnce
  <1>2. QED
    BY <1>1, RestInvariance, PTL
=============================================================================
