\* The ledger and the reports of one lease.
CONSTANTS
    NoLease = NoLease
    NoDate = NoDate
    Leases <- MCLeases
    PaymentTables <- MCPaymentTables
    AsOfDates <- MCAsOfDates
    Months <- MCMonths
    SafetyGuard = 4
SPECIFICATION Spec
INVARIANTS
    TypeOK
    ScheduleWithinTerm
    OldestPeriodFirst
    EachCycleBilledOnce
    LedgerIsWaterfall
    ReportsMatchLedger
    ForecastsMatchSchedule
\* The request ends with its response.
CHECK_DEADLOCK FALSE
