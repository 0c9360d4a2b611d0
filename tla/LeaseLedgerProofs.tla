-------------------------- MODULE LeaseLedgerProofs --------------------------
(***************************************************************************)
(* Proofs about LeaseLedger, for every set of leases, every payments table *)
(* and every value of the guard.                                           *)
(***************************************************************************)
EXTENDS LeaseLedger, FiniteSetTheorems, TLAPS

-----------------------------------------------------------------------------
(* The calendar.                                                           *)

\* Every month has 28 to 31 days.
LEMMA MonthLength == \A month \in Nat : DaysIn(month) \in 28..31
  BY DEF DaysIn

\* The date setters return a date when the day overruns its month by less than
\* a month.
LEMMA RolledIsDate ==
    \A month \in Nat, day \in 1..45 :
       /\ Rolled(month, day) \in Dates
       /\ Rolled(month, day).month \in {month, month + 1}
       /\ Rolled(month, day).month = month => Rolled(month, day).day = day
<1> SUFFICES ASSUME NEW month \in Nat, NEW day \in 1..45
             PROVE  /\ Rolled(month, day) \in Dates
                    /\ Rolled(month, day).month \in {month, month + 1}
                    /\ Rolled(month, day).month = month => Rolled(month, day).day = day
  OBVIOUS
<1>1. DaysIn(month) \in 28..31 /\ DaysIn(month + 1) \in 28..31 /\ month + 1 \in Nat
  BY MonthLength
<1> HIDE DEF DaysIn
<1>2. CASE day <= DaysIn(month)
  BY <1>1, <1>2 DEF Rolled, Dates
<1>3. CASE ~(day <= DaysIn(month))
  BY <1>1, <1>3 DEF Rolled, Dates
<1> QED BY <1>2, <1>3

\* addByFrequency returns a later date, for every date and frequency: the loops
\* that step by it make progress.
LEMMA AddByFrequencyAdvances ==
    \A d \in Dates, freq \in Frequencies :
       /\ AddByFrequency(d, freq) \in Dates
       /\ Before(d, AddByFrequency(d, freq))
<1> SUFFICES ASSUME NEW d \in Dates, NEW freq \in Frequencies
             PROVE  /\ AddByFrequency(d, freq) \in Dates
                    /\ Before(d, AddByFrequency(d, freq))
  OBVIOUS
<1>1. d.month \in Nat /\ d.day \in 1..31
  BY DEF Dates
<1>2. ASSUME NEW n \in Nat \ {0}
      PROVE  AddMonths(d, n) \in Dates /\ Before(d, AddMonths(d, n))
  <2> DEFINE moved == Rolled(d.month + n, d.day)
  <2>1. d.month + n \in Nat /\ d.day \in 1..45
    BY <1>1
  <2>2. moved \in Dates /\ moved.month \in {d.month + n, d.month + n + 1}
    BY <2>1, RolledIsDate
  <2>3. moved.month \in Nat /\ moved.month > d.month
    BY <1>1, <2>2
  <2>4. [moved EXCEPT !.day = IF d.day < 28 THEN d.day ELSE 28] \in Dates
    <3>1. moved \in [month : Nat, day : 1..31] /\ DaysIn(moved.month) \in 28..31
      BY <2>2, MonthLength DEF Dates
    <3>2. (IF d.day < 28 THEN d.day ELSE 28) \in 1..28
      BY <1>1
    <3> HIDE DEF moved
    <3> QED BY <3>1, <3>2 DEF Dates
  <2>5. [moved EXCEPT !.day = IF d.day < 28 THEN d.day ELSE 28].month = moved.month
    BY <2>2 DEF Dates
  <2>6. AddMonths(d, n) = IF moved.day = d.day THEN moved
                          ELSE [moved EXCEPT !.day = IF d.day < 28 THEN d.day ELSE 28]
    BY DEF AddMonths
  <2>7. AddMonths(d, n) \in Dates /\ AddMonths(d, n).month > d.month
    <3> HIDE DEF moved
    <3> QED BY <2>2, <2>3, <2>4, <2>5, <2>6
  <2> QED BY <2>7 DEF Before
<1>3. ASSUME NEW n \in {7, 14}
      PROVE  Rolled(d.month, d.day + n) \in Dates /\ Before(d, Rolled(d.month, d.day + n))
  <2> DEFINE moved == Rolled(d.month, d.day + n)
  <2>1. d.month \in Nat /\ d.day + n \in 1..45
    BY <1>1
  <2>2. /\ moved \in Dates
        /\ moved.month \in {d.month, d.month + 1}
        /\ moved.month = d.month => moved.day = d.day + n
    BY <2>1, RolledIsDate
  <2> QED BY <1>1, <2>2 DEF Before
<1>4. Rolled(d.month + 12, d.day) \in Dates /\ Before(d, Rolled(d.month + 12, d.day))
  <2> DEFINE later == d.month + 12
  <2>1. later \in Nat /\ d.day \in 1..45 /\ later > d.month
    BY <1>1
  <2>2. /\ Rolled(later, d.day) \in Dates
        /\ Rolled(later, d.day).month \in {later, later + 1}
    <3> HIDE DEF later
    <3> QED BY <2>1, RolledIsDate
  <2> QED BY <1>1, <2>1, <2>2 DEF Before
<1> QED BY <1>2, <1>3, <1>4 DEF AddByFrequency, Frequencies

\* Before is transitive, and a date not after another is before what it is before.
LEMMA BeforeTransitive ==
    \A a, b, c \in Dates :
       /\ Before(a, b) /\ Before(b, c) => Before(a, c)
       /\ NotAfter(a, b) /\ Before(b, c) => NotAfter(a, c)
  BY DEF Before, NotAfter, Dates

-----------------------------------------------------------------------------
(* Type correctness.  The type invariant is inductive once it is known that *)
(* a request past its first step has a lease, and that one inside the      *)
(* period loop has a payment in hand.                                      *)

TypeInv ==
    /\ TypeOK
    /\ pc \notin {"getLease", "notFound"} => lease \in Leases
    /\ pc = "period" => p <= Len(payQueue)

\* The amount applied to an open period is positive and neither more than its
\* balance nor more than what is left of the payment.
LEMMA AppliedBounds ==
    ASSUME TypeInv, k \in DOMAIN periods, OpenPeriod, remaining > 0
    PROVE  /\ periods[k] \in Period
           /\ Applied \in Nat \ {0}
           /\ Applied <= periods[k].balance
           /\ Applied <= remaining
           /\ Applied = periods[k].balance \/ Applied = remaining
<1>1. periods[k] \in Period
  BY DEF TypeInv, TypeOK
<1>2. periods[k].balance \in Nat /\ remaining \in Nat
  BY <1>1 DEF TypeInv, TypeOK, Period
<1> QED BY <1>1, <1>2 DEF Applied, OpenPeriod

\* Paying part of its balance into a period gives a period.
LEMMA PeriodPaidInto ==
    ASSUME NEW period \in Period, NEW n \in Nat \ {0}, n <= period.balance, NEW x \in Payment
    PROVE  PaidInto(period, n, x) \in Period
<1>1. period.amountPaid + n \in Nat /\ period.balance - n \in Nat
  BY DEF Period
<1>2. [id |-> x.id, amount |-> n] \in Slice
  BY DEF Payment, Slice
<1>3. period.payments \in Seq(Slice)
  BY DEF Period
<1>4. Append(period.payments, [id |-> x.id, amount |-> n]) \in Seq(Slice)
  BY <1>2, <1>3
<1>5. period.dueDate \in Dates /\ period.amountDue \in Nat \ {0}
  BY DEF Period
<1> QED BY <1>1, <1>4, <1>5 DEF PaidInto, Period

LEMMA InitTypeInv == Init => TypeInv
<1> SUFFICES ASSUME Init PROVE TypeInv
  OBVIOUS
<1>1. due \in Dates
  <2>1. due = [month |-> 23640, day |-> 1]
    BY DEF Init, Date
  <2>2. DaysIn(23640) \in 28..31
    BY MonthLength
  <2> QED BY <2>1, <2>2 DEF Dates
<1> QED BY <1>1 DEF Init, TypeInv, TypeOK, Steps

LEMMA NextTypeInv == TypeInv /\ [Next]_vars => TypeInv'
<1> SUFFICES ASSUME TypeInv, [Next]_vars PROVE TypeInv'
  OBVIOUS
<1> USE DEF TypeInv, TypeOK, Steps
<1>1. CASE GetLease
  BY <1>1, LedgerAssumption DEF GetLease, Lease
<1>2. CASE FirstDueOnOrAfter
  <2>1. lease.paymentFrequency \in Frequencies
    BY <1>2, LedgerAssumption DEF FirstDueOnOrAfter, Lease
  <2>2. AddByFrequency(due, lease.paymentFrequency) \in Dates
    BY <2>1, AddByFrequencyAdvances
  <2> QED BY <1>2, <2>2 DEF FirstDueOnOrAfter
<1>3. CASE BuildBillingSchedule
  <2>1. lease \in Lease
    BY <1>3, LedgerAssumption DEF BuildBillingSchedule
  <2>2. AddByFrequency(due, lease.paymentFrequency) \in Dates
    BY <2>1, AddByFrequencyAdvances DEF Lease
  <2>3. NewPeriod \in Period
    BY <2>1 DEF NewPeriod, Period, Lease
  <2>4. Append(periods, NewPeriod) \in Seq(Period)
    BY <2>3
  <2>5. due' \in Dates /\ periods' \in Seq(Period)
    BY <1>3, <2>2, <2>4 DEF BuildBillingSchedule
  <2> QED BY <1>3, <2>5 DEF BuildBillingSchedule
<1>4. CASE GetPayments
  <2>1. payments \subseteq Payment /\ IsFiniteSet(payments)
    BY LedgerAssumption
  <2>2. Cardinality(payments) \in Nat
    BY <2>1, FS_CardinalityType
  <2>3. \A queue \in SetToSeqs(payments) : queue \in Seq(Payment)
    BY <2>1, <2>2 DEF SetToSeqs
  <2> QED BY <1>4, <2>3 DEF GetPayments
<1>5. CASE TakePayment
  <2>1. payQueue[p] \in Payment
    BY <1>5 DEF TakePayment
  <2> QED BY <1>5, <2>1 DEF TakePayment, Payment
<1>6. CASE EndPayment
  BY <1>6 DEF EndPayment
<1>7. CASE SkipPaidPeriod
  BY <1>7 DEF SkipPaidPeriod
<1>8. CASE ApplyToPeriod
  <2>1. k \in DOMAIN periods /\ p \in DOMAIN payQueue
    BY <1>8 DEF ApplyToPeriod
  <2>2. /\ periods[k] \in Period
        /\ Applied \in Nat \ {0}
        /\ Applied <= periods[k].balance /\ Applied <= remaining
    BY <1>8, <2>1, AppliedBounds DEF ApplyToPeriod
  <2>3. payQueue[p] \in Payment
    BY <2>1
  <2>4. PaidInto(periods[k], Applied, payQueue[p]) \in Period
    BY <2>2, <2>3, PeriodPaidInto
  <2>5. periods' \in Seq(Period)
    BY <1>8, <2>1, <2>4 DEF ApplyToPeriod
  <2> QED BY <1>8, <2>2, <2>5 DEF ApplyToPeriod
<1>9. CASE Respond
  BY <1>9 DEF Respond
<1>10. CASE UNCHANGED vars
  BY <1>10 DEF vars
<1> QED BY <1>1, <1>2, <1>3, <1>4, <1>5, <1>6, <1>7, <1>8, <1>9, <1>10 DEF Next

LEMMA TypeInvariant == Spec => []TypeInv
<1> QED BY InitTypeInv, NextTypeInv, PTL DEF Spec

\* Every variable keeps its type, for every lease and payments table.
THEOREM TypeCorrect == Spec => []TypeOK
<1>1. TypeInv => TypeOK
  BY DEF TypeInv
<1> QED BY <1>1, TypeInvariant, PTL

-----------------------------------------------------------------------------
(* The schedule.  ScheduleWithinTerm is inductive together with where the  *)
(* loop stands: not before the start of the term, past every period so far. *)

ScheduleInv ==
    /\ ScheduleWithinTerm
    /\ pc \in {"getLease", "firstDue", "notFound"} => periods = <<>>
    /\ pc = "schedule" =>
          /\ NotAfter(lease.startDate, due)
          /\ \A i \in DOMAIN periods : Before(periods[i].dueDate, due)

\* Steps that keep the lease and the due dates keep ScheduleWithinTerm.
LEMMA ScheduleKept ==
    ASSUME ScheduleWithinTerm, lease' = lease, Len(periods') = Len(periods),
           DOMAIN periods' = DOMAIN periods,
           \A i \in DOMAIN periods : periods'[i].dueDate = periods[i].dueDate
    PROVE  ScheduleWithinTerm'
  BY DEF ScheduleWithinTerm

LEMMA BillKeepsSchedule ==
    ASSUME TypeInv, ScheduleInv, BuildBillingSchedule
    PROVE  ScheduleInv'
<1>1. CASE InTerm /\ Len(periods) <= SafetyGuard
  <2>1. lease \in Lease
    BY LedgerAssumption DEF TypeInv, BuildBillingSchedule
  <2>2. /\ periods' = Append(periods, NewPeriod) /\ NewPeriod.dueDate = due
        /\ due' = AddByFrequency(due, lease.paymentFrequency)
        /\ lease' = lease /\ pc' = pc /\ pc = "schedule"
    BY <1>1 DEF BuildBillingSchedule, NewPeriod
  <2>3. due \in Dates /\ due' \in Dates /\ Before(due, due')
    BY <2>1, <2>2, AddByFrequencyAdvances DEF TypeInv, TypeOK, Lease
  <2>4. /\ periods \in Seq(Period)
        /\ \A i \in DOMAIN periods : periods[i].dueDate \in Dates
    <3>1. periods \in Seq(Period)
      BY DEF TypeInv, TypeOK
    <3>2. \A i \in DOMAIN periods : periods[i] \in Period
      BY <3>1
    <3> QED BY <3>1, <3>2 DEF Period
  <2>5. /\ Len(periods') = Len(periods) + 1
        /\ DOMAIN periods' = DOMAIN periods \cup {Len(periods) + 1}
        /\ \A i \in DOMAIN periods : periods'[i] = periods[i] /\ i < Len(periods) + 1
        /\ periods'[Len(periods) + 1] = NewPeriod
    BY <2>2, <2>4
  <2>6. /\ NotAfter(lease.startDate, due) /\ NotAfter(due, lease.endDate)
        /\ \A i \in DOMAIN periods : Before(periods[i].dueDate, due)
    BY <1>1, <2>2 DEF ScheduleInv, InTerm
  <2>7. ScheduleWithinTerm'
    <3>1. \A i \in DOMAIN periods' : /\ NotAfter(lease.startDate, periods'[i].dueDate)
                                     /\ NotAfter(periods'[i].dueDate, lease.endDate)
      BY <2>2, <2>5, <2>6 DEF ScheduleInv, ScheduleWithinTerm
    <3>2. ASSUME NEW i \in DOMAIN periods', NEW j \in DOMAIN periods', i < j
          PROVE  Before(periods'[i].dueDate, periods'[j].dueDate)
      <4>1. i \in DOMAIN periods
        BY <2>4, <2>5, <3>2
      <4>2. CASE j \in DOMAIN periods
        BY <2>5, <3>2, <4>1, <4>2 DEF ScheduleInv, ScheduleWithinTerm
      <4>3. CASE j = Len(periods) + 1
        BY <2>2, <2>5, <2>6, <4>1, <4>3
      <4> QED BY <2>5, <4>2, <4>3
    <3>3. Len(periods') <= SafetyGuard + 1
      BY <1>1, <2>4, <2>5, LedgerAssumption
    <3> QED BY <2>2, <3>1, <3>2, <3>3 DEF ScheduleWithinTerm
  <2>8. NotAfter(lease.startDate, due')
    BY <2>1, <2>3, <2>6, BeforeTransitive DEF Lease
  <2>9. \A i \in DOMAIN periods' : Before(periods'[i].dueDate, due')
    BY <2>2, <2>3, <2>4, <2>5, <2>6, BeforeTransitive
  <2> QED BY <2>2, <2>7, <2>8, <2>9 DEF ScheduleInv
<1>2. CASE ~(InTerm /\ Len(periods) <= SafetyGuard)
  <2>1. lease' = lease /\ periods' = periods /\ pc' = "getPayments"
    BY <1>2 DEF BuildBillingSchedule
  <2>2. ScheduleWithinTerm'
    BY <2>1, ScheduleKept DEF ScheduleInv
  <2> QED BY <2>1, <2>2 DEF ScheduleInv
<1> QED BY <1>1, <1>2

LEMMA NextScheduleInv == TypeInv /\ ScheduleInv /\ [Next]_vars => ScheduleInv'
<1> SUFFICES ASSUME TypeInv, ScheduleInv, [Next]_vars PROVE ScheduleInv'
  OBVIOUS
<1>1. ASSUME UNCHANGED <<lease, periods>> PROVE ScheduleWithinTerm'
  BY <1>1, ScheduleKept DEF ScheduleInv
<1>2. CASE GetLease
  <2>1. UNCHANGED <<lease, periods>>
    BY <1>2 DEF GetLease
  <2>2. pc' \in {"notFound", "firstDue"} /\ pc = "getLease"
    BY <1>2 DEF GetLease
  <2> QED BY <1>1, <2>1, <2>2 DEF ScheduleInv
<1>3. CASE FirstDueOnOrAfter
  <2>1. UNCHANGED <<lease, periods>> /\ pc = "firstDue"
    BY <1>3 DEF FirstDueOnOrAfter
  <2>2. periods = <<>>
    BY <2>1 DEF ScheduleInv
  <2>3. CASE Before(due, lease.startDate)
    BY <1>1, <1>3, <2>1, <2>2, <2>3 DEF FirstDueOnOrAfter, ScheduleInv
  <2>4. CASE ~Before(due, lease.startDate)
    <3>1. pc' = "schedule" /\ due' = due
      BY <1>3, <2>4 DEF FirstDueOnOrAfter
    <3>2. NotAfter(lease'.startDate, due')
      BY <2>1, <2>4, <3>1 DEF NotAfter
    <3> QED BY <1>1, <2>1, <2>2, <3>1, <3>2 DEF ScheduleInv
  <2> QED BY <2>3, <2>4
<1>4. CASE BuildBillingSchedule
  BY <1>4, BillKeepsSchedule
<1>5. CASE GetPayments \/ TakePayment \/ EndPayment \/ SkipPaidPeriod \/ Respond
  <2>1. /\ UNCHANGED <<lease, periods>>
        /\ pc' \in {"payment", "period", "done"}
    BY <1>5 DEF GetPayments, TakePayment, EndPayment, SkipPaidPeriod, Respond
  <2> QED BY <1>1, <2>1 DEF ScheduleInv
<1>6. CASE ApplyToPeriod
  <2>1. lease' = lease /\ pc' = "period" /\ periods \in Seq(Period) /\ k \in DOMAIN periods
    BY <1>6 DEF ApplyToPeriod, TypeInv, TypeOK
  <2>2. /\ Len(periods') = Len(periods) /\ DOMAIN periods' = DOMAIN periods
        /\ \A i \in DOMAIN periods : periods'[i].dueDate = periods[i].dueDate
    BY <1>6, <2>1 DEF ApplyToPeriod, PaidInto
  <2>3. ScheduleWithinTerm'
    BY <2>1, <2>2, ScheduleKept DEF ScheduleInv
  <2> QED BY <2>1, <2>3 DEF ScheduleInv
<1>7. CASE UNCHANGED vars
  <2>1. UNCHANGED <<lease, periods, pc, due>>
    BY <1>7 DEF vars
  <2> QED BY <1>1, <2>1 DEF ScheduleInv
<1> QED BY <1>2, <1>3, <1>4, <1>5, <1>6, <1>7 DEF Next

\* For every lease, of any frequency and any dates, the schedule stays within
\* the term and never repeats or goes back.
THEOREM ScheduleAlwaysWithinTerm == Spec => []ScheduleWithinTerm
<1>1. Init => ScheduleInv
  BY LedgerAssumption DEF Init, ScheduleInv, ScheduleWithinTerm
<1>2. ScheduleInv => ScheduleWithinTerm
  BY DEF ScheduleInv
<1> QED BY <1>1, <1>2, TypeInvariant, NextScheduleInv, PTL DEF Spec

-----------------------------------------------------------------------------
(* The allocation.  OldestPeriodFirst is inductive together with two facts *)
(* about the loops: nothing is paid before the payments are read, and      *)
(* while a payment is not used up every period behind the loop is full.    *)

FifoInv ==
    /\ OldestPeriodFirst
    /\ pc \in {"getLease", "firstDue", "schedule", "notFound", "getPayments"} =>
          \A i \in DOMAIN periods : periods[i].amountPaid = 0
    /\ pc = "period" /\ remaining > 0 =>
          \A i \in DOMAIN periods : i < k => periods[i].balance = 0

\* A period appended with nothing paid leaves nothing paid anywhere.
LEMMA BillKeepsFifo ==
    ASSUME TypeInv, FifoInv, BuildBillingSchedule
    PROVE  FifoInv'
<1>1. CASE InTerm /\ Len(periods) <= SafetyGuard
  <2>1. /\ periods' = Append(periods, NewPeriod) /\ pc' = pc /\ pc = "schedule"
        /\ NewPeriod.amountPaid = 0 /\ NewPeriod.balance = lease.amount
        /\ NewPeriod.amountDue = lease.amount
    BY <1>1 DEF BuildBillingSchedule, NewPeriod
  <2>2. lease.amount \in Nat
    BY <2>1, LedgerAssumption DEF TypeInv, Lease
  <2>3. periods \in Seq(Period)
    BY DEF TypeInv, TypeOK
  <2>4. /\ DOMAIN periods' = DOMAIN periods \cup {Len(periods) + 1}
        /\ \A i \in DOMAIN periods : periods'[i] = periods[i]
        /\ periods'[Len(periods) + 1] = NewPeriod
    BY <2>1, <2>3
  <2>5. \A i \in DOMAIN periods' :
           /\ periods'[i].amountPaid = 0
           /\ periods'[i].amountPaid + periods'[i].balance = periods'[i].amountDue
    <3>1. \A i \in DOMAIN periods :
             /\ periods[i].amountPaid = 0
             /\ periods[i].amountPaid + periods[i].balance = periods[i].amountDue
      BY <2>1 DEF FifoInv, OldestPeriodFirst
    <3>2. NewPeriod.amountPaid + NewPeriod.balance = NewPeriod.amountDue
      BY <2>1, <2>2
    <3> QED BY <2>1, <2>4, <3>1, <3>2
  <2> QED BY <2>1, <2>5 DEF FifoInv, OldestPeriodFirst
<1>2. CASE ~(InTerm /\ Len(periods) <= SafetyGuard)
  <2>1. periods' = periods /\ pc' = "getPayments" /\ pc = "schedule"
    BY <1>2 DEF BuildBillingSchedule
  <2> QED BY <2>1 DEF FifoInv, OldestPeriodFirst
<1> QED BY <1>1, <1>2

\* Paying into the open period the loop is at: the ones behind it are full, so
\* no older one is short, and either it is full now too or the payment is used up.
LEMMA ApplyKeepsFifo ==
    ASSUME TypeInv, FifoInv, ApplyToPeriod
    PROVE  FifoInv'
<1>1. /\ pc = "period" /\ remaining > 0 /\ OpenPeriod
      /\ remaining' = remaining - Applied /\ k' = k + 1 /\ pc' = pc
      /\ periods' = [periods EXCEPT ![k] = PaidInto(periods[k], Applied, payQueue[p])]
      /\ k <= Len(periods)
  BY DEF ApplyToPeriod
<1>2. /\ periods \in Seq(Period) /\ k \in DOMAIN periods /\ remaining \in Nat
  BY <1>1 DEF TypeInv, TypeOK
<1>3. /\ periods[k] \in Period
      /\ Applied \in Nat \ {0}
      /\ Applied = periods[k].balance \/ Applied = remaining
  BY <1>1, <1>2, AppliedBounds
<1>4. /\ periods[k].amountPaid \in Nat /\ periods[k].balance \in Nat
      /\ periods[k].amountDue \in Nat
  BY <1>3 DEF Period
<1>5. /\ DOMAIN periods' = DOMAIN periods
      /\ \A i \in DOMAIN periods : i # k => periods'[i] = periods[i]
      /\ periods'[k] = PaidInto(periods[k], Applied, payQueue[p])
  BY <1>1, <1>2
<1>6. /\ periods'[k].amountPaid = periods[k].amountPaid + Applied
      /\ periods'[k].balance = periods[k].balance - Applied
      /\ periods'[k].amountDue = periods[k].amountDue
  BY <1>5 DEF PaidInto
<1>7. \A i \in DOMAIN periods : i < k => periods[i].balance = 0
  BY <1>1 DEF FifoInv
<1>8. /\ \A i \in DOMAIN periods :
            periods[i].amountPaid + periods[i].balance = periods[i].amountDue
      /\ \A i, j \in DOMAIN periods :
            i < j /\ periods[j].amountPaid > 0 => periods[i].balance = 0
  BY DEF FifoInv, OldestPeriodFirst
<1>9. periods[k].balance > 0
  BY <1>1 DEF OpenPeriod
<1>10. \A i \in DOMAIN periods' :
          periods'[i].amountPaid + periods'[i].balance = periods'[i].amountDue
  <2>1. periods'[k].amountPaid + periods'[k].balance = periods'[k].amountDue
    <3>1. periods[k].amountPaid + periods[k].balance = periods[k].amountDue
      BY <1>2, <1>8
    <3> QED BY <1>3, <1>4, <1>6, <3>1
  <2> QED BY <1>5, <1>8, <2>1
<1>11. ASSUME NEW i \in DOMAIN periods', NEW j \in DOMAIN periods',
              i < j, periods'[j].amountPaid > 0
       PROVE  periods'[i].balance = 0
  <2>1. CASE i = k
    <3>1. periods[j].amountPaid > 0 /\ j # k
      BY <1>2, <1>5, <1>11, <2>1
    <3> QED BY <1>2, <1>5, <1>8, <1>9, <1>11, <2>1, <3>1
  <2>2. CASE i # k /\ j = k
    BY <1>5, <1>7, <1>11, <2>2
  <2>3. CASE i # k /\ j # k
    BY <1>5, <1>8, <1>11, <2>3
  <2> QED BY <2>1, <2>2, <2>3
<1>12. remaining' > 0 => \A i \in DOMAIN periods' : i < k' => periods'[i].balance = 0
  <2> SUFFICES ASSUME remaining' > 0, NEW i \in DOMAIN periods', i < k'
               PROVE  periods'[i].balance = 0
    OBVIOUS
  <2>1. Applied = periods[k].balance
    BY <1>1, <1>2, <1>3
  <2>2. i = k \/ i < k
    BY <1>1, <1>2, <1>5
  <2>3. CASE i = k
    BY <1>4, <1>6, <2>1, <2>3
  <2>4. CASE i < k
    BY <1>2, <1>5, <1>7, <2>4
  <2> QED BY <2>2, <2>3, <2>4
<1> QED BY <1>1, <1>10, <1>11, <1>12 DEF FifoInv, OldestPeriodFirst

LEMMA NextFifoInv == TypeInv /\ FifoInv /\ [Next]_vars => FifoInv'
<1> SUFFICES ASSUME TypeInv, FifoInv, [Next]_vars PROVE FifoInv'
  OBVIOUS
<1>1. CASE GetLease
  BY <1>1 DEF GetLease, FifoInv, OldestPeriodFirst
<1>2. CASE FirstDueOnOrAfter
  BY <1>2 DEF FirstDueOnOrAfter, FifoInv, OldestPeriodFirst
<1>3. CASE BuildBillingSchedule
  BY <1>3, BillKeepsFifo
<1>4. CASE GetPayments
  BY <1>4 DEF GetPayments, FifoInv, OldestPeriodFirst
<1>5. CASE TakePayment
  <2>1. periods \in Seq(Period) /\ periods' = periods /\ k' = 1 /\ pc' = "period"
    BY <1>5 DEF TakePayment, TypeInv, TypeOK
  <2>2. \A i \in DOMAIN periods' : ~(i < k')
    BY <2>1
  <2> QED BY <2>1, <2>2 DEF FifoInv, OldestPeriodFirst
<1>6. CASE EndPayment
  BY <1>6 DEF EndPayment, FifoInv, OldestPeriodFirst
<1>7. CASE SkipPaidPeriod
  <2>1. /\ pc = "period" /\ remaining > 0 /\ ~OpenPeriod /\ k' = k + 1
        /\ UNCHANGED <<periods, pc, remaining>> /\ k <= Len(periods)
    BY <1>7 DEF SkipPaidPeriod
  <2>2. periods \in Seq(Period) /\ k \in DOMAIN periods
    BY <2>1 DEF TypeInv, TypeOK
  <2>3. periods[k].balance = 0
    <3>1. periods[k] \in Period
      BY <2>2
    <3>2. periods[k].balance \in Nat
      BY <3>1 DEF Period
    <3> QED BY <2>1, <3>2 DEF OpenPeriod
  <2>4. \A i \in DOMAIN periods : i < k' => i = k \/ i < k
    BY <2>1, <2>2
  <2>5. \A i \in DOMAIN periods' : i < k' => periods'[i].balance = 0
    BY <2>1, <2>3, <2>4 DEF FifoInv
  <2> QED BY <2>1, <2>5 DEF FifoInv, OldestPeriodFirst
<1>8. CASE ApplyToPeriod
  BY <1>8, ApplyKeepsFifo
<1>9. CASE Respond
  BY <1>9 DEF Respond, FifoInv, OldestPeriodFirst
<1>10. CASE UNCHANGED vars
  BY <1>10 DEF vars, FifoInv, OldestPeriodFirst
<1> QED BY <1>1, <1>2, <1>3, <1>4, <1>5, <1>6, <1>7, <1>8, <1>9, <1>10 DEF Next

\* For every schedule and every payments table, money never reaches a period
\* while an older one is short, at every step of the allocation.
THEOREM AllocationIsFifo == Spec => []OldestPeriodFirst
<1>1. Init => FifoInv
  BY DEF Init, FifoInv, OldestPeriodFirst
<1>2. FifoInv => OldestPeriodFirst
  BY DEF FifoInv
<1> QED BY <1>1, <1>2, TypeInvariant, NextFifoInv, PTL DEF Spec

=============================================================================
