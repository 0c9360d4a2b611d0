\* Starts, shutdowns and their overlap, with two requests and two attempts.
CONSTANTS
    r1 = r1
    r2 = r2
    Requests = {r1, r2}
    Attempts = 2
SPECIFICATION Spec
INVARIANTS
    TypeOK
    ErrorsDrain
PROPERTIES
    ListensOnDatabase
    StopsWhenAsked
    StartSettles
\* The process exits.
CHECK_DEADLOCK FALSE
