\* The due days of monthly leases first due at the end of a month.
CONSTANTS
    NoLease = NoLease
    NoDate = NoDate
    Leases <- MCLeases
    PaymentTables <- MCPaymentTables
    AsOfDates <- MCAsOfDates
    Months <- MCMonths
    SafetyGuard = 4
SPECIFICATION Spec
INVARIANTS
    AnchoredToSameDay
\* The request ends with its response.
CHECK_DEADLOCK FALSE
