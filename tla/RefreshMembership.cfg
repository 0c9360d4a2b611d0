\* Setting the status of a membership that is cached.
CONSTANTS
    m1 = m1
    m2 = m2
    Ids = {m1, m2}
    owner = owner
    tenant = tenant
    Roles = {owner, tenant}
    active = active
    Statuses = {active}
    NoStatus = NoStatus
    w1 = w1
    w2 = w2
    Workers = {w1, w2}
    Nothing = Nothing
    Disturbed = Disturbed
    MaxRequests = 3
SPECIFICATION ContractSpec
PROPERTIES
    RefreshStoresNewStatus
\* The writers stop at the bound.
CHECK_DEADLOCK FALSE
