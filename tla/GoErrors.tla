------------------------------ MODULE GoErrors ------------------------------
(***************************************************************************)
(* The errors of the Go SDK (wirechat-sdk-go/wirechat/errors.go).          *)
(*                                                                         *)
(* A Go error is the chain that errors.As walks: a sequence with one entry *)
(* per error, the outermost first.  An entry is the Code of a WirechatError*)
(* or Plain, for an error of another package; <<>> is nil.                 *)
(***************************************************************************)
EXTENDS Naturals, Sequences

\* String(), in the order of the iota: Names[e + 1] is the name of code e.
Names == <<"unknown",
    "unsupported_version", "unauthorized", "invalid_message", "bad_request",
    "room_not_found", "already_joined", "not_in_room", "access_denied",
    "rate_limited", "internal_error",
    "connection_error", "disconnected", "timeout", "invalid_config",
    "not_connected", "serialization_error">>

ErrorCode == 0 .. 16

ErrorUnknown == 0
ErrorUnsupportedVersion == 1
ErrorInternalServer == 10
ErrorConnection == 11
ErrorDisconnected == 12
ErrorInvalidConfig == 14
ErrorSerialization == 16

Plain == 17
Errors == Seq(ErrorCode \cup {Plain})

\* ParseErrorCode has a table of its own; every other string is unknown.
Parsed == [unsupported_version |-> 1, unauthorized |-> 2,
    invalid_message |-> 3, bad_request |-> 4, room_not_found |-> 5,
    already_joined |-> 6, not_in_room |-> 7, access_denied |-> 8,
    rate_limited |-> 9, internal_error |-> 10]

ParseErrorCode(code) ==
    IF code \in DOMAIN Parsed THEN Parsed[code] ELSE ErrorUnknown

NewError(code) == <<code>>
WrapError(code, err) == <<code>> \o err
FromProtocolError(code) == NewError(ParseErrorCode(code))

\* errors.As: the code of the outermost WirechatError of the chain.
HasCode(err, codes) ==
    \E i \in DOMAIN err : /\ err[i] \in codes
                          /\ \A j \in 1 .. i - 1 : err[j] = Plain

IsProtocolError(err) ==
    HasCode(err, ErrorUnsupportedVersion .. ErrorInternalServer)
=============================================================================
