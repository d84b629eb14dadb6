------------------------------- MODULE GoRest -------------------------------
(***************************************************************************)
(* The REST client of the Go SDK (wirechat-sdk-go/wirechat/rest/client.go):*)
(* any number of goroutines call its methods while the application sets    *)
(* the token.  The client has no lock and keeps nothing of a call; a step  *)
(* is one read of the token, one exchange with the server or one return.   *)
(* The server and http.Client are external.                                *)
(***************************************************************************)
EXTENDS Naturals

CONSTANTS
    Callers,                \* goroutines that call
    Tokens, NoToken, Torn,  \* token strings; ""; a string read in a race
    NoHeader, NotSetting,
    MaxServed               \* bound: times the server sees one GET

ASSUME TokensAssumption ==
    /\ NoToken \notin Tokens /\ Torn \notin Tokens \cup {NoToken}
    /\ NoHeader \notin Tokens \cup {NoToken, Torn}
    /\ NotSetting \notin Tokens \cup {NoToken}
ASSUME ServedAssumption == MaxServed \in Nat \ {0}

VARIABLES
    token,      \* c.token
    setting,    \* the string that SetToken is storing
    pc, method, \* the callers: place, method called
    header,     \* the Authorization header of the request
    served,     \* how many times the server has carried out the call
    status,     \* the status of the response, 0 without one
    result,     \* what the call returns
    began, raced    \* the token when the call began; SetToken has overlapped

server == <<served, status>>
vars == <<token, setting, pc, method, header, server, result, began, raced>>

Posts == {"Register", "Login", "GuestLogin", "CreateRoom", "CreateDirectRoom"}
Methods == Posts \cup {"ListRooms", "GetMessages"}
RequireAuth == {"CreateRoom", "CreateDirectRoom", "ListRooms", "GetMessages"}

Statuses == {200, 400, 401, 500}

Init ==
    /\ token = NoToken /\ setting = NotSetting
    /\ pc = [c \in Callers |-> "idle"] /\ method = [c \in Callers |-> "none"]
    /\ header = [c \in Callers |-> NoHeader]
    /\ served = [c \in Callers |-> 0] /\ status = [c \in Callers |-> 0]
    /\ result = [c \in Callers |-> "none"]
    /\ began = [c \in Callers |-> NoToken] /\ raced = [c \in Callers |-> FALSE]

-----------------------------------------------------------------------------
(* SetToken.  A string is two words: an assignment takes two steps, and who*)
(* reads meanwhile may get anything.                                       *)

SetToken(t) ==
    /\ setting = NotSetting
    /\ setting' = t
    /\ raced' = [c \in Callers |-> pc[c] # "idle"]
    /\ UNCHANGED <<token, pc, method, header, server, result, began>>

TokenSet ==
    /\ setting # NotSetting
    /\ token' = setting /\ setting' = NotSetting
    /\ UNCHANGED <<pc, method, header, server, result, began, raced>>

ReadToken == IF setting = NotSetting THEN {token} ELSE {token, setting, Torn}

-----------------------------------------------------------------------------
(* A call.                                                                 *)

CallerStep(c, from, to) ==
    /\ pc[c] = from
    /\ pc' = [pc EXCEPT ![c] = to]
    /\ UNCHANGED <<token, setting>>

Begin(c, m) ==
    /\ CallerStep(c, "idle", "auth")
    /\ method' = [method EXCEPT ![c] = m]
    /\ header' = [header EXCEPT ![c] = NoHeader]
    /\ served' = [served EXCEPT ![c] = 0] /\ status' = [status EXCEPT ![c] = 0]
    /\ result' = [result EXCEPT ![c] = "none"]
    /\ began' = [began EXCEPT ![c] = token]
    /\ raced' = [raced EXCEPT ![c] = setting # NotSetting]

Returns(c, from, answer) ==
    /\ CallerStep(c, from, "return")
    /\ result' = [result EXCEPT ![c] = answer]
    /\ UNCHANGED <<method, header, server, began, raced>>

\* The body cannot be marshalled, or the request cannot be made.
RequestFails(c) == Returns(c, "auth", "error")

\* Mutant: the parameter requireAuth is not looked at.
WantsTokenAlways(c) == TRUE

WantsToken(c) == method[c] \in RequireAuth

\* The first read of the token, for the test ...
NoTokenSent(c) ==
    /\ CallerStep(c, "auth", "send")
    /\ ~WantsToken(c) \/ \E t \in ReadToken : t = NoToken
    /\ UNCHANGED <<method, header, server, result, began, raced>>

TokenFound(c) ==
    /\ CallerStep(c, "auth", "bearer")
    /\ WantsToken(c) /\ \E t \in ReadToken : t # NoToken
    /\ UNCHANGED <<method, header, server, result, began, raced>>

\* ... and the second, for the header: it may be empty by now.
Bearer(c) ==
    /\ CallerStep(c, "bearer", "send")
    /\ \E t \in ReadToken : header' = [header EXCEPT ![c] = t]
    /\ UNCHANGED <<method, server, result, began, raced>>

\* The server sees the request and answers it.  It carries out what it does
\* not refuse; http.Transport may send a GET again, never a POST.
Serve(c) ==
    /\ CallerStep(c, "send", "wait")
    /\ \E s \in Statuses :
          /\ status' = [status EXCEPT ![c] = s]
          /\ served' = IF s < 400 THEN [served EXCEPT ![c] = @ + 1] ELSE served
    /\ UNCHANGED <<method, header, result, began, raced>>

GetAgain(c) ==
    /\ CallerStep(c, "wait", "send")
    /\ method[c] \notin Posts /\ served[c] < MaxServed
    /\ status' = [status EXCEPT ![c] = 0]
    /\ UNCHANGED <<method, header, served, result, began, raced>>

\* Mutant: an error of Do is met with a second try.
DoRetries(c) ==
    /\ CallerStep(c, "wait", "send") /\ served[c] < MaxServed
    /\ status' = [status EXCEPT ![c] = 0]
    /\ UNCHANGED <<method, header, served, result, began, raced>>

\* Do or ReadAll fails, the timeout of 30 s included: whether the server has
\* seen the request or not.
DoFails(c) == \E pc0 \in {"send", "wait"} : Returns(c, pc0, "error")

Refused(s) == s >= 400

RefusedByServer(c) == Refused(status[c]) /\ Returns(c, "wait", "error")

UnmarshalFails(c) == ~Refused(status[c]) /\ Returns(c, "wait", "error")

Succeeds(c) == ~Refused(status[c]) /\ Returns(c, "wait", "ok")

Finish(c) ==
    /\ CallerStep(c, "return", "idle")
    /\ UNCHANGED <<method, header, server, result, began, raced>>

-----------------------------------------------------------------------------
CallNext(c) ==
    \/ \E m \in Methods : Begin(c, m)
    \/ RequestFails(c) \/ NoTokenSent(c) \/ TokenFound(c) \/ Bearer(c)
    \/ Serve(c) \/ GetAgain(c) \/ DoFails(c) \/ RefusedByServer(c)
    \/ UnmarshalFails(c) \/ Succeeds(c) \/ Finish(c)

Next ==
    \/ \E c \in Callers : CallNext(c)
    \/ \E t \in Tokens \cup {NoToken} : SetToken(t)
    \/ TokenSet

Spec == Init /\ [][Next]_vars

-----------------------------------------------------------------------------
(* Properties                                                              *)

\* Types; a call returns either its value or an error.
TypeOK ==
    /\ token \in Tokens \cup {NoToken}
    /\ setting \in Tokens \cup {NoToken, NotSetting}
    /\ pc \in [Callers -> {"idle", "auth", "bearer", "send", "wait", "return"}]
    /\ method \in [Callers -> Methods \cup {"none"}]
    /\ header \in [Callers -> Tokens \cup {NoToken, Torn, NoHeader}]
    /\ served \in [Callers -> 0 .. MaxServed]
    /\ status \in [Callers -> Statuses \cup {0}]
    /\ result \in [Callers -> {"none", "ok", "error"}]
    /\ \A c \in Callers : pc[c] = "return" => result[c] # "none"
    /\ began \in [Callers -> Tokens \cup {NoToken}]
    /\ raced \in [Callers -> BOOLEAN]

\* A request that was not overtaken by SetToken goes out with the token set
\* before the call, or without a header if there is none; Register, Login and
\* GuestLogin go out without one, whatever happens meanwhile.
Authorized(c) == IF method[c] \in RequireAuth /\ began[c] # NoToken
                 THEN began[c] ELSE NoHeader

HeaderRight ==
    \A c \in Callers :
        pc[c] \in {"send", "wait"} =>
            /\ ~raced[c] => header[c] = Authorized(c)
            /\ method[c] \notin RequireAuth => header[c] = NoHeader

\* A call that succeeds was carried out by the server.  One that changes
\* something there was carried out once, and never more than once, also when
\* it ends in an error: the client does not repeat what may have been done.
DoneOnce ==
    \A c \in Callers : pc[c] # "idle" =>
        /\ result[c] = "ok" => served[c] >= 1 /\ status[c] = 200
        /\ method[c] \in Posts => served[c] <= 1
=============================================================================
