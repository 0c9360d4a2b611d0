\* Two requests of each service at a time, on each key one of its readers looks up.
CONSTANTS
    Workers = {"w1", "w2"}
    Watched <- EveryService
    Idle = Idle
SPECIFICATION Spec
INVARIANTS
    TypeOK
    WritesRefresh
    AnswersAsWritten
    NoErrorAfterWriting
PROPERTIES
    DeletedStaysDeleted
    CachesCatchUp
