\* Requests in flight when SIGTERM arrives.
CONSTANTS
    r1 = r1
    r2 = r2
    Requests = {r1, r2}
    Attempts = 2
SPECIFICATION Spec
INVARIANTS
    SigtermDrains
\* The process exits.
CHECK_DEADLOCK FALSE
