\* Two requests on one logger, two calls each.
SPECIFICATION Spec
CONSTANTS
    Request = {r1, r2}
    Uuid = {u1, u2, u3, u4}
    Params <- MCParams
    MaxAttempts = 2
INVARIANTS
    TypeOK
    OkIsQueued
    CopiesAnswerFailures
    ExcessIsExplained
SYMMETRY Symmetry
