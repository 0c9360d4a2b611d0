\* Racing writers of two leases of one tenant, and readers of the landlord's list.
CONSTANTS
    l1 = l1
    l2 = l2
    Leases = {l1, l2}
    w1 = w1
    w2 = w2
    Workers = {w1, w2}
    ReadKinds = {"landlord"}
    Days = {1, 2, 3}
    Statuses = {"active", "terminated"}
    Changes <- MCChanges
    NoDate = NoDate
    Nothing = Nothing
    Unsigned = Unsigned
    Gone = Gone
    MaxWrites = 3
SYMMETRY Symmetry
SPECIFICATION Spec
INVARIANTS
    TypeOK
PROPERTIES
    LeasesLive
\* The writers stop at the bound.
CHECK_DEADLOCK FALSE
