SPECIFICATION Spec
CONSTANTS
    Writers = {w1}
    Events = {"message"}
    ErrorNames = {"internal_error", "flood"}
INVARIANT ServerErrorsAreProtocol
CHECK_DEADLOCK FALSE
