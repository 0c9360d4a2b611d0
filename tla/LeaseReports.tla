---------------------------- MODULE LeaseReports ----------------------------
(***************************************************************************)
(* What propertyLeaseAgreementService.ts derives from a lease besides its  *)
(* ledger: the next due date and the number of periods shown to clients,   *)
(* the monthly rent roll and the arrears aging of a property.  Each walks  *)
(* the schedule in code of its own; the properties compare what they say   *)
(* with the ledger of the same lease and payments.                         *)
(***************************************************************************)
EXTENDS LeaseLedger

CONSTANTS
    AsOfDates,       \* the days reports are asked for
    Months,          \* the months rent rolls are asked for
    NoDate           \* null

ASSUME ReportsAssumption ==
    AsOfDates \subseteq Dates /\ Months \subseteq Nat /\ NoDate \notin Dates

-----------------------------------------------------------------------------
(* Forecasts.                                                              *)

\* A variant for mutation: a date due today counts as past.
NextDueDateAfter(l, today) ==
    LET from[d \in Dates] ==
          IF Before(d, l.startDate) \/ NotAfter(d, today)
            THEN from[AddByFrequency(d, l.paymentFrequency)]
            ELSE IF Before(l.endDate, d) THEN NoDate ELSE d
    IN  from[l.firstPaymentDate]

\* The loops of computeNextDueDate: past the start of the term, then past
\* today; null once beyond the end.
DueOnward(l, today) ==
    LET from[d \in Dates] ==
          IF Before(d, l.startDate) \/ Before(d, today)
            THEN from[AddByFrequency(d, l.paymentFrequency)]
            ELSE IF Before(l.endDate, d) THEN NoDate ELSE d
    IN  from

NextDueDate(l, today) == DueOnward(l, today)[l.firstPaymentDate]

\* The loop of createLeaseAgreement that counts periods from the first payment
\* date (its limit of 10 000 is out of the reach of any date used here).
PeriodsOnward(l) ==
    LET count[d \in Dates] ==
          IF Before(l.endDate, d)
            THEN 0
            ELSE 1 + count[AddByFrequency(d, l.paymentFrequency)]
    IN  count

EstimatedPeriods(l) == PeriodsOnward(l)[l.firstPaymentDate]

-----------------------------------------------------------------------------
(* Reports over the schedule and the payments of one lease.                *)

Amounts == [x \in payments |-> x.amount]
AtLeastZero(n) == IF n > 0 THEN n ELSE 0

MonthStart(month) == [month |-> month, day |-> 1]
MonthEnd(month)   == [month |-> month, day |-> DaysIn(month)]

\* A variant for mutation: the last day of the month is left out.
DueBeforeMonthEnd(month) ==
    {i \in DOMAIN periods : /\ NotAfter(MonthStart(month), periods[i].dueDate)
                            /\ Before(periods[i].dueDate, MonthEnd(month))}

MonthPeriods(month) ==
    {i \in DOMAIN periods : /\ NotAfter(MonthStart(month), periods[i].dueDate)
                            /\ NotAfter(periods[i].dueDate, MonthEnd(month))}

\* getPropertyRentRoll: monthEnd is the midnight that begins the last day.
RentRoll(month) ==
    LET duePeriods == MonthPeriods(month)
        paidIn == {x \in payments : /\ x.paidAt >= Midnight(MonthStart(month))
                                    /\ x.paidAt <= Midnight(MonthEnd(month))}
        dueSum  == SumFunctionOnSet(Column("amountDue"), duePeriods)
        paidSum == SumFunctionOnSet(Amounts, paidIn)
    IN  [listed  |-> duePeriods # {},
         due     |-> dueSum,
         paid    |-> paidSum,
         balance |-> AtLeastZero(dueSum - paidSum)]

\* getArrearsAging, for one lease.
PeriodsDue(asOf) == {i \in DOMAIN periods : NotAfter(periods[i].dueDate, asOf)}

PaymentsUntil(asOf) == {x \in payments : x.paidAt <= Midnight(asOf)}

ArrearsOutstanding(asOf) ==
    AtLeastZero(SumFunctionOnSet(Column("amountDue"), PeriodsDue(asOf))
                  - SumFunctionOnSet(Amounts, PaymentsUntil(asOf)))

DaysPastDue(i, asOf) == Ordinal(asOf) - Ordinal(periods[i].dueDate)

\* The loop walks the periods from the oldest one until the outstanding amount
\* is used up, and keeps the largest number of days it meets.
MaxDaysPastDue(asOf) ==
    LET walked == {i \in PeriodsDue(asOf) :
                     ArrearsOutstanding(asOf)
                       > SumFunctionOnSet(Column("amountDue"),
                                          {j \in PeriodsDue(asOf) : j < i})}
    IN  Max({0} \cup {DaysPastDue(i, asOf) : i \in walked})

Bucket(days) ==
    CASE days <= 30 -> "0-30"
      [] days \in 31..60 -> "31-60"
      [] days \in 61..90 -> "61-90"
      [] OTHER -> "90+"

-----------------------------------------------------------------------------
(* Properties.                                                             *)

\* A lease bills each cycle once: consecutive due dates are exactly one or two
\* weeks apart, and a monthly, quarterly or yearly lease never bills twice in a
\* cycle, however addByFrequency rolls over a short month (it may bill one
\* month late).
EachCycleBilledOnce ==
    \A i \in 1..(Len(periods) - 1) :
       LET a == periods[i].dueDate
           b == periods[i + 1].dueDate
           days   == Ordinal(b) - Ordinal(a)
           months == b.month - a.month
       IN  CASE lease.paymentFrequency = "weekly"    -> days = 7
             [] lease.paymentFrequency = "biweekly"  -> days = 14
             [] lease.paymentFrequency = "monthly"   -> months \in {1, 2}
             [] lease.paymentFrequency = "quarterly" -> months \in {3, 4}
             [] lease.paymentFrequency = "yearly"    -> months \in {12, 13}

Received == SumFunctionOnSet(Amounts, payments)

\* What the ledger shows of payment x: its slices, by period and place, and their sum.
Slices(x) ==
    UNION {{<<i, j>> : j \in {n \in DOMAIN periods[i].payments :
                                periods[i].payments[n].id = x.id}} : i \in DOMAIN periods}
AppliedOf(x) ==
    SumFunctionOnSet([s \in Slices(x) |-> periods[s[1]].payments[s[2]].amount], Slices(x))

\* What a finished ledger shows does not depend on how the money was split into
\* payments: the payments fill the periods as one sum poured in from the
\* oldest, nothing is invented, and a payment is lost only when every period is
\* full.
LedgerIsWaterfall ==
    pc = "done" =>
      /\ \A i \in DOMAIN periods :
            LET reached == AtLeastZero(Received - (i - 1) * lease.amount)
            IN  periods[i].amountPaid = IF reached < lease.amount THEN reached ELSE lease.amount
      /\ TotalPaid = (IF Received < TotalDue THEN Received ELSE TotalDue)
      /\ Outstanding = AtLeastZero(TotalDue - Received)
      /\ \A x \in payments :
            AppliedOf(x) <= x.amount /\ (AppliedOf(x) < x.amount => Outstanding = 0)

\* On any day by which all payments were made, the arrears report owes what the
\* ledger's due periods are short of; and the rent rolls of the months between
\* them bill every period of the ledger once.
ReportsMatchLedger ==
    pc = "done" =>
      /\ \A asOf \in AsOfDates :
            PaymentsUntil(asOf) = payments =>
              ArrearsOutstanding(asOf) = SumFunctionOnSet(Column("balance"), PeriodsDue(asOf))
      /\ \A i \in DOMAIN periods :
            periods[i].dueDate.month \in Months =>
              {m \in Months : i \in MonthPeriods(m)} = {periods[i].dueDate.month}
      /\ \A m \in Months : RentRoll(m).listed <=> RentRoll(m).due > 0

\* The next due date shown for a lease is the first date of its schedule that
\* is not past, and there is none exactly when the schedule has run out; the
\* estimate of periods is the length of the schedule unless the first payment
\* date lies before the term.
ForecastsMatchSchedule ==
    pc = "done" /\ Len(periods) <= SafetyGuard =>
      /\ \A today \in AsOfDates :
            LET coming == {i \in DOMAIN periods : NotAfter(today, periods[i].dueDate)}
            IN  NextDueDate(lease, today) =
                  IF coming = {} THEN NoDate ELSE periods[Min(coming)].dueDate
      /\ NotAfter(lease.startDate, lease.firstPaymentDate)
            => EstimatedPeriods(lease) = Len(periods)

\* "Determine most overdue period with unpaid amount"
\* (propertyLeaseAgreementService.ts:281): a lease is aged by the oldest period
\* the ledger shows a balance for.
ArrearsAgeFromUnpaidPeriod ==
    pc = "done" =>
      \A asOf \in AsOfDates :
         LET unpaid == {i \in PeriodsDue(asOf) : periods[i].balance > 0}
         IN  PaymentsUntil(asOf) = payments /\ unpaid # {}
               => Bucket(MaxDaysPastDue(asOf)) = Bucket(DaysPastDue(Min(unpaid), asOf))

\* "anchor to same day when possible" (propertyLeaseAgreementService.ts:93):
\* a monthly due date falls on the day of the first payment date in every
\* month that has such a day.
AnchoredToSameDay ==
    lease # NoLease /\ lease.paymentFrequency = "monthly" =>
      \A i \in DOMAIN periods :
         LET d == periods[i].dueDate
         IN  lease.firstPaymentDate.day <= DaysIn(d.month)
               => d.day = lease.firstPaymentDate.day

=============================================================================
