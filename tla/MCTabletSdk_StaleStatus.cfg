\* An Insert after a failed call, with the same status object.
CONSTANTS
    MaxRows = 2
    MaxCalls = 3
SPECIFICATION Spec
CHECK_DEADLOCK FALSE
INVARIANT InsertErrorIsOwn
