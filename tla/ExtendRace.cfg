\* Two extensions of one lease that read the same end date.
CONSTANTS
    l1 = l1
    Leases = {l1}
    w1 = w1
    w2 = w2
    Workers = {w1, w2}
    ReadKinds = {}
    Days = {1, 2, 3, 4}
    Statuses = {"active", "terminated"}
    Changes <- MCChanges
    NoDate = NoDate
    Nothing = Nothing
    Unsigned = Unsigned
    Gone = Gone
    MaxWrites = 3
SPECIFICATION Spec
PROPERTIES
    ExtendOnlyLengthens
\* The writers stop at the bound.
CHECK_DEADLOCK FALSE
