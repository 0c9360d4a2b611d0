\* Every route, with every complete request and every request that lacks one
\* key, for every caller and every outcome of the service calls.
SPECIFICATION Spec
INVARIANTS
    TypeOK
    ReachesItsRoute
    ActsOnItsResource
    FieldsArrive
    WellFormedServed
    ErrorsBeforeWrites
    UpdatesOnlyWhatWasSent
PROPERTIES
    Answered
\* A request ends.
CHECK_DEADLOCK FALSE
