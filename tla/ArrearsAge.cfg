\* The age the arrears report gives, against the ledger.
CONSTANTS
    NoLease = NoLease
    NoDate = NoDate
    Leases <- MCLeases
    PaymentTables <- MCPaymentTables
    AsOfDates <- MCAsOfDates
    Months <- MCMonths
    SafetyGuard = 4
SPECIFICATION Spec
INVARIANTS
    ArrearsAgeFromUnpaidPeriod
\* The request ends with its response.
CHECK_DEADLOCK FALSE
