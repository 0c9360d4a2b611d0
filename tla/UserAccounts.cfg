\* Two requests at a time, two accounts, a phone that may change hands.
CONSTANTS
    u1 = u1
    u2 = u2
    Ids = {u1, u2}
    p1 = p1
    p2 = p2
    Phones = {p1, p2}
    Invited = {p1}
    e1 = e1
    Emails = {e1}
    TenantEmails = {e1}
    w1 = w1
    w2 = w2
    Workers = {w1, w2}
    Nothing = Nothing
    Gone = Gone
    MaxOthers = 1
SPECIFICATION Spec
INVARIANTS
    TypeOK
    PinOpensAccount
PROPERTIES
    NoSecondForSearched
    PinsReachTheirPhone
    InvitationsHeal
