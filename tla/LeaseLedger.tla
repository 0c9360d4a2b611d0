----------------------------- MODULE LeaseLedger -----------------------------
(***************************************************************************)
(* getLeaseLedger of propertyLeaseAgreementService.ts: one request that    *)
(* reads a lease row, derives the due dates of its term, reads the         *)
(* payments recorded against the lease and pours them, oldest first, into  *)
(* the periods.                                                            *)
(*                                                                         *)
(* The two loops of the schedule (firstDueOnOrAfter, buildBillingSchedule) *)
(* and the two nested loops of the allocation are modelled one iteration   *)
(* per step, so that what each iteration keeps true can be stated, checked *)
(* and proved.  Amounts are whole numbers of the smallest currency unit.   *)
(***************************************************************************)
EXTENDS BillingCalendar, Sequences, SequencesExt, FiniteSetsExt

CONSTANTS
    Leases,          \* the lease rows considered
    NoLease,         \* what findOne returns when there is no row
    PaymentTables,   \* the possible contents of the payments table of a lease
    SafetyGuard      \* 1000 in the code: a schedule has at most one period more

Lease == [startDate : Dates, endDate : Dates, firstPaymentDate : Dates,
          paymentFrequency : Frequencies, amount : Nat \ {0}]

\* paidAt is an instant: the column is a timestamp, the lease's are dates.
Payment == [id : STRING, amount : Nat \ {0}, paidAt : Int]

ASSUME LedgerAssumption ==
    /\ Leases \subseteq Lease
    /\ NoLease \notin Lease
    /\ \A table \in PaymentTables :
          /\ table \subseteq Payment /\ IsFiniteSet(table)
          /\ \A x, y \in table : x.id = y.id => x = y
    /\ SafetyGuard \in Nat

VARIABLES
    lease,      \* the row of the lease asked for, or NoLease
    payments,   \* its rows of property_lease_payments
    pc,         \* where the request stands
    due,        \* the date the schedule loops have reached
    periods,    \* the periods of the schedule, with what was paid into each
    payQueue,   \* the payments, sorted by paidAt
    p, k,       \* the payment and the period the allocation loops are at
    remaining   \* what is left of payment p

vars == <<lease, payments, pc, due, periods, payQueue, p, k, remaining>>

Steps == {"getLease", "firstDue", "schedule", "getPayments",
          "payment", "period", "done", "notFound"}

Slice  == [id : STRING, amount : Nat \ {0}]
Period == [dueDate : Dates, amountDue : Nat \ {0}, amountPaid : Nat,
           balance : Nat, payments : Seq(Slice)]

Init ==
    /\ lease \in Leases \cup {NoLease}
    /\ payments \in PaymentTables
    /\ pc = "getLease"
    /\ due = Date(1970, 1, 1)
    /\ periods = <<>> /\ payQueue = <<>>
    /\ p = 1 /\ k = 1 /\ remaining = 0

-----------------------------------------------------------------------------
(* The lease and its schedule.                                             *)

\* getById: one read of the row, NotFoundError when there is none.
GetLease ==
    /\ pc = "getLease"
    /\ IF lease = NoLease
         THEN pc' = "notFound" /\ UNCHANGED due
         ELSE pc' = "firstDue" /\ due' = lease.firstPaymentDate
    /\ UNCHANGED <<lease, payments, periods, payQueue, p, k, remaining>>

\* firstDueOnOrAfter: step the first payment date up to the start of the term.
FirstDueOnOrAfter ==
    /\ pc = "firstDue"
    /\ IF Before(due, lease.startDate)
         THEN due' = AddByFrequency(due, lease.paymentFrequency) /\ UNCHANGED pc
         ELSE pc' = "schedule" /\ UNCHANGED due
    /\ UNCHANGED <<lease, payments, periods, payQueue, p, k, remaining>>

\* A variant for mutation: only the months are compared.
InTermMonth == due.month <= lease.endDate.month

InTerm == NotAfter(due, lease.endDate)

NewPeriod == [dueDate |-> due, amountDue |-> lease.amount, amountPaid |-> 0,
              balance |-> lease.amount, payments |-> <<>>]

BuildBillingSchedule ==
    /\ pc = "schedule"
    /\ IF InTerm /\ Len(periods) <= SafetyGuard
         THEN /\ periods' = Append(periods, NewPeriod)
              /\ due' = AddByFrequency(due, lease.paymentFrequency)
              /\ UNCHANGED pc
         ELSE pc' = "getPayments" /\ UNCHANGED <<due, periods>>
    /\ UNCHANGED <<lease, payments, payQueue, p, k, remaining>>

-----------------------------------------------------------------------------
(* The payments and their allocation.                                      *)

\* sort() is stable, and the query leaves payments of one instant in any order.
SortedByPaidAt(queue) ==
    \A i, j \in DOMAIN queue : i < j => queue[i].paidAt <= queue[j].paidAt

GetPayments ==
    /\ pc = "getPayments"
    /\ \E queue \in SetToSeqs(payments) :
          SortedByPaidAt(queue) /\ payQueue' = queue
    /\ pc' = "payment"
    /\ UNCHANGED <<lease, payments, due, periods, p, k, remaining>>

\* A variant for mutation: the period loop goes on where the last one ended.
TakePaymentWithoutRewind ==
    /\ pc = "payment" /\ p <= Len(payQueue)
    /\ remaining' = payQueue[p].amount
    /\ pc' = "period"
    /\ UNCHANGED <<lease, payments, due, periods, payQueue, p, k>>

\* for (const p of payQueue): take the next payment whole.
TakePayment ==
    /\ pc = "payment" /\ p <= Len(payQueue)
    /\ remaining' = payQueue[p].amount
    /\ k' = 1
    /\ pc' = "period"
    /\ UNCHANGED <<lease, payments, due, periods, payQueue, p>>

\* The inner loop is over: what is left of the payment is dropped.
EndPayment ==
    /\ pc = "period" /\ (k > Len(periods) \/ remaining <= 0)
    /\ p' = p + 1
    /\ pc' = "payment"
    /\ UNCHANGED <<lease, payments, due, periods, payQueue, k, remaining>>

\* Variants for mutation: only untouched periods are open; no Math.min.
UntouchedPeriod == periods[k].amountPaid = 0
WholePayment == remaining

OpenPeriod == periods[k].balance > 0

Applied == IF periods[k].balance < remaining THEN periods[k].balance ELSE remaining

SkipPaidPeriod ==
    /\ pc = "period" /\ k <= Len(periods) /\ remaining > 0
    /\ ~OpenPeriod
    /\ k' = k + 1
    /\ UNCHANGED <<lease, payments, pc, due, periods, payQueue, p, remaining>>

\* The period with n more paid, listed as a slice of payment x.
PaidInto(period, n, x) ==
    [dueDate    |-> period.dueDate,
     amountDue  |-> period.amountDue,
     amountPaid |-> period.amountPaid + n,
     balance    |-> period.balance - n,
     payments   |-> Append(period.payments, [id |-> x.id, amount |-> n])]

ApplyToPeriod ==
    /\ pc = "period" /\ k <= Len(periods) /\ remaining > 0
    /\ OpenPeriod
    /\ periods' = [periods EXCEPT ![k] = PaidInto(periods[k], Applied, payQueue[p])]
    /\ remaining' = remaining - Applied
    /\ k' = k + 1
    /\ UNCHANGED <<lease, payments, pc, due, payQueue, p>>

Respond ==
    /\ pc = "payment" /\ p > Len(payQueue)
    /\ pc' = "done"
    /\ UNCHANGED <<lease, payments, due, periods, payQueue, p, k, remaining>>

\* The totals of the response.
Column(field) == [i \in DOMAIN periods |-> periods[i][field]]
Total(field) == SumFunctionOnSet(Column(field), DOMAIN periods)
TotalDue    == Total("amountDue")
TotalPaid   == Total("amountPaid")
Outstanding == IF TotalDue > TotalPaid THEN TotalDue - TotalPaid ELSE 0

Next ==
    \/ GetLease \/ FirstDueOnOrAfter \/ BuildBillingSchedule
    \/ GetPayments \/ TakePayment \/ EndPayment
    \/ SkipPaidPeriod \/ ApplyToPeriod \/ Respond

Spec == Init /\ [][Next]_vars

-----------------------------------------------------------------------------
(* Properties.                                                             *)

TypeOK ==
    /\ lease \in Leases \cup {NoLease}
    /\ payments \in PaymentTables
    /\ pc \in Steps
    /\ due \in Dates
    /\ periods \in Seq(Period)
    /\ payQueue \in Seq(Payment)
    /\ p \in Nat \ {0} /\ k \in Nat \ {0}
    /\ remaining \in Nat

\* Whatever the frequency and however a short month rolls a date over, the due
\* dates of a schedule strictly increase and none is before the term's start or
\* after its end, and the schedule stops at the guard.
ScheduleWithinTerm ==
    /\ \A i \in DOMAIN periods :
          /\ NotAfter(lease.startDate, periods[i].dueDate)
          /\ NotAfter(periods[i].dueDate, lease.endDate)
    /\ \A i, j \in DOMAIN periods :
          i < j => Before(periods[i].dueDate, periods[j].dueDate)
    /\ Len(periods) <= SafetyGuard + 1

\* "Allocate payments FIFO": at every moment of the allocation no period holds
\* money while an older one is still short, and each period's paid part and
\* balance add up to what it bills.
OldestPeriodFirst ==
    /\ \A i \in DOMAIN periods :
          periods[i].amountPaid + periods[i].balance = periods[i].amountDue
    /\ \A i, j \in DOMAIN periods :
          i < j /\ periods[j].amountPaid > 0 => periods[i].balance = 0

=============================================================================
