SPECIFICATION Spec
CONSTANTS
    Writers = {w1}
    Events = {"message"}
    ErrorNames = {"internal_error", "flood"}
INVARIANTS HeardOnce NothingElse PanicTakesRemoval
CHECK_DEADLOCK FALSE
