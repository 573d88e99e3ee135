\* One request, one call: every event the queue is given.
SPECIFICATION Spec
CONSTANTS
    Request = {r1}
    Uuid = {u1}
    Params <- MCParams
    MaxAttempts = 1
INVARIANT
    AllFieldsBounded
