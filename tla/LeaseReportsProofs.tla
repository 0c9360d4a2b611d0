-------------------------- MODULE LeaseReportsProofs --------------------------
(***************************************************************************)
(* What the ledger and the reports of a lease say, for every lease, every  *)
(* table of payments and every day: proofs.                                *)
(***************************************************************************)
EXTENDS LeaseReports, LeaseLedgerProofs, RecursionFacts, FunctionTheorems

-----------------------------------------------------------------------------
(* The calendar: day numbers across the end of a month.                    *)

\* How a quotient goes on from one year to the next.
LEMMA QuotientStep ==
    \A y \in Nat :
       /\ y \div 4 = (y - 1) \div 4 + (IF y % 4 = 0 THEN 1 ELSE 0)
       /\ y \div 100 = (y - 1) \div 100 + (IF y % 100 = 0 THEN 1 ELSE 0)
       /\ y \div 400 = (y - 1) \div 400 + (IF y % 400 = 0 THEN 1 ELSE 0)
       /\ y % 400 = 0 => y % 100 = 0
       /\ y % 100 = 0 => y % 4 = 0
  OBVIOUS

LEMMA OrdinalIn ==
    ASSUME NEW d, NEW y, NEW r, d.month \div 12 = y, d.month % 12 = r
    PROVE  Ordinal(d) = 365 * y + (y - 1) \div 4 - (y - 1) \div 100 + (y - 1) \div 400
                          + DaysBefore[r + 1] + d.day + (IF r > 1 /\ IsLeap(y) THEN 1 ELSE 0)
  BY DEF Ordinal

\* The day after the last one of a month is the first of the next month.
LEMMA MonthStep ==
    ASSUME NEW month \in Nat, NEW day \in Int
    PROVE  Ordinal([month |-> month + 1, day |-> day - DaysIn(month)])
             = Ordinal([month |-> month, day |-> day])
<1> DEFINE year == month \div 12
           rest == month % 12
<1>1. year \in Nat /\ rest \in 0..11 /\ month = 12 * year + rest
  OBVIOUS
<1>2. CASE rest < 11
  <2>1. (month + 1) \div 12 = year /\ (month + 1) % 12 = rest + 1
    BY <1>1, <1>2
  <2>2. /\ DaysIn(month) = IF rest = 1 THEN IF IsLeap(year) THEN 29 ELSE 28
                           ELSE IF rest \in {3, 5, 8, 10} THEN 30 ELSE 31
    BY <1>1 DEF DaysIn
  <2>3. DaysBefore[rest + 2] - DaysBefore[rest + 1]
          = IF rest = 1 THEN 28 ELSE IF rest \in {3, 5, 8, 10} THEN 30 ELSE 31
    BY <1>1, <1>2 DEF DaysBefore
  <2>4. DaysBefore[rest + 1] \in Nat /\ DaysBefore[rest + 2] \in Nat
    BY <1>1, <1>2 DEF DaysBefore
  <2> DEFINE past == year - 1
             base == 365 * year + past \div 4 - past \div 100 + past \div 400
  <2>5. base \in Int
    BY <1>1
  <2>6. Ordinal([month |-> month, day |-> day])
          = base + DaysBefore[rest + 1] + day + (IF rest > 1 /\ IsLeap(year) THEN 1 ELSE 0)
    BY DEF Ordinal
  <2>7. Ordinal([month |-> month + 1, day |-> day - DaysIn(month)])
          = base + DaysBefore[rest + 2] + (day - DaysIn(month))
              + (IF rest + 1 > 1 /\ IsLeap(year) THEN 1 ELSE 0)
    <3>1. (rest + 1) + 1 = rest + 2
      BY <1>1
    <3> DEFINE next == [month |-> month + 1, day |-> day - DaysIn(month)]
    <3>2. next.month \div 12 = year /\ next.month % 12 = rest + 1 /\ next.day = day - DaysIn(month)
      BY <2>1
    <3> HIDE DEF next, year, rest
    <3>3. Ordinal(next) = 365 * year + (year - 1) \div 4 - (year - 1) \div 100 + (year - 1) \div 400
                          + DaysBefore[(rest + 1) + 1] + next.day
                          + (IF rest + 1 > 1 /\ IsLeap(year) THEN 1 ELSE 0)
      BY <3>2, OrdinalIn
    <3> QED BY <3>1, <3>2, <3>3 DEF next
  <2> HIDE DEF year, rest, base
  <2> QED BY <1>1, <1>2, <2>2, <2>3, <2>4, <2>5, <2>6, <2>7
<1>3. CASE rest = 11
  <2>1. (month + 1) \div 12 = year + 1 /\ (month + 1) % 12 = 0
    BY <1>1, <1>3
  <2>2. DaysIn(month) = 31
    BY <1>1, <1>3 DEF DaysIn
  <2>3. DaysBefore[1] = 0 /\ DaysBefore[12] = 334
    BY DEF DaysBefore
  <2>4. /\ Ordinal([month |-> month, day |-> day])
             = 365 * year + (year - 1) \div 4 - (year - 1) \div 100 + (year - 1) \div 400
                 + 334 + day + (IF IsLeap(year) THEN 1 ELSE 0)
        /\ Ordinal([month |-> month + 1, day |-> day - DaysIn(month)])
             = 365 * (year + 1) + year \div 4 - year \div 100 + year \div 400
                 + 0 + (day - 31) + 0
    <3> HIDE DEF year, rest
    <3>1. month \div 12 = year /\ month % 12 = rest
      BY DEF year, rest
    <3>2. (year + 1) - 1 = year
      BY <1>1
    <3> QED BY <1>3, <2>1, <2>2, <2>3, <3>1, <3>2 DEF Ordinal
  <2> HIDE DEF year, rest
  <2> QED BY <1>1, <2>4, QuotientStep DEF IsLeap
<1> QED BY <1>1, <1>2, <1>3

\* Days within one month.
LEMMA DayStep ==
    ASSUME NEW month \in Nat, NEW day \in Int, NEW n \in Int
    PROVE  Ordinal([month |-> month, day |-> day + n])
             = Ordinal([month |-> month, day |-> day]) + n
<1>1. DaysBefore[(month % 12) + 1] \in Int
  BY DEF DaysBefore
<1> QED BY <1>1 DEF Ordinal

\* One step of the schedule: a week or two by the day number, or to one of the two
\* months a month, a quarter or a year later.
LEMMA CycleStep ==
    ASSUME NEW d \in Dates, NEW freq \in Frequencies
    PROVE  LET next == AddByFrequency(d, freq)
               days == Ordinal(next) - Ordinal(d)
               months == next.month - d.month
           IN  /\ freq = "weekly"    => days = 7
               /\ freq = "biweekly"  => days = 14
               /\ freq = "monthly"   => months \in {1, 2}
               /\ freq = "quarterly" => months \in {3, 4}
               /\ freq = "yearly"    => months \in {12, 13}
<1>1. d.month \in Nat /\ d.day \in 1..31 /\ d = [month |-> d.month, day |-> d.day]
  BY DEF Dates
<1>2. ASSUME NEW n \in {7, 14} PROVE Ordinal(Rolled(d.month, d.day + n)) - Ordinal(d) = n
  <2>1. Ordinal(Rolled(d.month, d.day + n)) = Ordinal([month |-> d.month, day |-> d.day + n])
    BY <1>1, MonthStep DEF Rolled
  <2>2. Ordinal([month |-> d.month, day |-> d.day + n]) = Ordinal(d) + n
    BY <1>1, DayStep
  <2>3. Ordinal(d) \in Int
    <3>1. DaysBefore[(d.month % 12) + 1] \in Int
      BY <1>1 DEF DaysBefore
    <3> QED BY <1>1, <3>1 DEF Ordinal
  <2> QED BY <2>1, <2>2, <2>3
<1>3. ASSUME NEW n \in {1, 3, 12} PROVE Rolled(d.month + n, d.day).month - d.month \in {n, n + 1}
  <2>1. d.month + n \in Nat /\ d.day \in 1..45
    BY <1>1
  <2>2. Rolled(d.month + n, d.day).month \in {d.month + n, d.month + n + 1}
    BY <2>1, RolledIsDate
  <2> QED BY <1>1, <2>2
<1>4. ASSUME NEW n \in {1, 3} PROVE AddMonths(d, n).month = Rolled(d.month + n, d.day).month
  BY DEF AddMonths, Rolled
<1> QED BY <1>2, <1>3, <1>4 DEF AddByFrequency

-----------------------------------------------------------------------------
(* The schedule is a chain: each period bills the rent of the lease and is *)
(* due one step of its frequency after the one before.                     *)

ChainInv ==
    /\ \A i \in DOMAIN periods : periods[i].amountDue = lease.amount
    /\ \A i \in 1..(Len(periods) - 1) :
          periods[i + 1].dueDate = AddByFrequency(periods[i].dueDate, lease.paymentFrequency)
    /\ pc = "schedule" /\ periods # <<>> =>
          due = AddByFrequency(periods[Len(periods)].dueDate, lease.paymentFrequency)

\* Steps that keep the lease, the due dates and the rents keep the chain.
LEMMA ChainKept ==
    ASSUME ChainInv, lease' = lease, Len(periods') = Len(periods),
           DOMAIN periods = 1..Len(periods), Len(periods) \in Nat,
           DOMAIN periods' = DOMAIN periods, pc' # "schedule",
           \A i \in DOMAIN periods : /\ periods'[i].dueDate = periods[i].dueDate
                                     /\ periods'[i].amountDue = periods[i].amountDue
    PROVE  ChainInv'
<1>1. \A i \in DOMAIN periods' : periods'[i].amountDue = lease'.amount
  BY DEF ChainInv
<1>2. ASSUME NEW i \in 1..(Len(periods') - 1)
      PROVE  periods'[i + 1].dueDate = AddByFrequency(periods'[i].dueDate, lease'.paymentFrequency)
  <2>1. i \in DOMAIN periods /\ i + 1 \in DOMAIN periods /\ i \in 1..(Len(periods) - 1)
    BY <1>2
  <2> QED BY <2>1 DEF ChainInv
<1> QED BY <1>1, <1>2 DEF ChainInv

LEMMA BillKeepsChain ==
    ASSUME TypeInv, ChainInv, BuildBillingSchedule
    PROVE  ChainInv'
<1>1. periods \in Seq(Period) /\ Len(periods) \in Nat /\ DOMAIN periods = 1..Len(periods)
  BY DEF TypeInv, TypeOK
<1>2. CASE InTerm /\ Len(periods) <= SafetyGuard
  <2>1. /\ periods' = Append(periods, NewPeriod)
        /\ due' = AddByFrequency(due, lease.paymentFrequency)
        /\ lease' = lease /\ pc = "schedule"
    BY <1>2 DEF BuildBillingSchedule
  <2>2. NewPeriod.dueDate = due /\ NewPeriod.amountDue = lease.amount
    BY DEF NewPeriod
  <2>3. /\ Len(periods') = Len(periods) + 1
        /\ DOMAIN periods' = 1..(Len(periods) + 1)
        /\ \A i \in DOMAIN periods : periods'[i] = periods[i]
        /\ periods'[Len(periods) + 1] = NewPeriod
    BY <1>1, <2>1
  <2>4. ASSUME NEW i \in DOMAIN periods' PROVE periods'[i].amountDue = lease'.amount
    <3>1. i \in DOMAIN periods \/ i = Len(periods) + 1
      BY <1>1, <2>3
    <3> QED BY <2>1, <2>2, <2>3, <3>1 DEF ChainInv
  <2>5. ASSUME NEW i \in 1..(Len(periods') - 1)
        PROVE  periods'[i + 1].dueDate = AddByFrequency(periods'[i].dueDate, lease'.paymentFrequency)
    <3>1. CASE i = Len(periods)
      <4>1. periods # <<>> /\ i \in DOMAIN periods
        BY <1>1, <2>5, <3>1
      <4>2. due = AddByFrequency(periods[i].dueDate, lease.paymentFrequency)
        BY <2>1, <3>1, <4>1 DEF ChainInv
      <4> QED BY <2>1, <2>2, <2>3, <3>1, <4>1, <4>2
    <3>2. CASE i # Len(periods)
      <4>1. i \in 1..(Len(periods) - 1) /\ i \in DOMAIN periods /\ i + 1 \in DOMAIN periods
        BY <1>1, <2>3, <2>5, <3>2
      <4> QED BY <2>1, <2>3, <4>1 DEF ChainInv
    <3> QED BY <3>1, <3>2
  <2>6. due' = AddByFrequency(periods'[Len(periods')].dueDate, lease'.paymentFrequency)
    BY <2>1, <2>2, <2>3
  <2> QED BY <2>4, <2>5, <2>6 DEF ChainInv
<1>3. CASE ~(InTerm /\ Len(periods) <= SafetyGuard)
  <2>1. lease' = lease /\ periods' = periods /\ pc' = "getPayments"
    BY <1>3 DEF BuildBillingSchedule
  <2> QED BY <1>1, <2>1, ChainKept
<1> QED BY <1>2, <1>3

LEMMA NextChainInv == TypeInv /\ ScheduleInv /\ ChainInv /\ [Next]_vars => ChainInv'
<1> SUFFICES ASSUME TypeInv, ScheduleInv, ChainInv, [Next]_vars PROVE ChainInv'
  OBVIOUS
<1>1. periods \in Seq(Period) /\ Len(periods) \in Nat /\ DOMAIN periods = 1..Len(periods)
  BY DEF TypeInv, TypeOK
<1>2. CASE GetLease \/ FirstDueOnOrAfter
  <2>1. UNCHANGED <<lease, periods>> /\ pc \in {"getLease", "firstDue"}
    BY <1>2 DEF GetLease, FirstDueOnOrAfter
  <2>2. periods = <<>>
    BY <2>1 DEF ScheduleInv
  <2> QED BY <2>1, <2>2 DEF ChainInv
<1>3. CASE BuildBillingSchedule
  BY <1>3, BillKeepsChain
<1>4. CASE GetPayments \/ TakePayment \/ EndPayment \/ SkipPaidPeriod \/ Respond
  <2>1. /\ UNCHANGED <<lease, periods>>
        /\ pc' \in {"payment", "period", "done"}
    BY <1>4 DEF GetPayments, TakePayment, EndPayment, SkipPaidPeriod, Respond
  <2> QED BY <1>1, <2>1, ChainKept
<1>5. CASE ApplyToPeriod
  <2>1. lease' = lease /\ pc' = "period" /\ k \in DOMAIN periods
    BY <1>1, <1>5 DEF ApplyToPeriod, TypeInv, TypeOK
  <2>2. /\ Len(periods') = Len(periods) /\ DOMAIN periods' = DOMAIN periods
        /\ \A i \in DOMAIN periods : /\ periods'[i].dueDate = periods[i].dueDate
                                      /\ periods'[i].amountDue = periods[i].amountDue
    BY <1>1, <1>5, <2>1 DEF ApplyToPeriod, PaidInto
  <2> QED BY <1>1, <2>1, <2>2, ChainKept
<1>6. CASE UNCHANGED vars
  BY <1>6 DEF vars, ChainInv
<1> QED BY <1>2, <1>3, <1>4, <1>5, <1>6 DEF Next

LEMMA ChainHolds == Spec => [](TypeInv /\ ScheduleInv /\ ChainInv)
<1>1. Init => ScheduleInv
  BY LedgerAssumption DEF Init, ScheduleInv, ScheduleWithinTerm
<1>2. Init => ChainInv
  BY DEF Init, ChainInv
<1> QED BY <1>1, <1>2, InitTypeInv, NextTypeInv, NextScheduleInv, NextChainInv, PTL DEF Spec

\* For every lease, however its dates fall: a weekly or biweekly one is billed on the day,
\* and no other is billed twice in a cycle.
THEOREM CyclesAlwaysBilledOnce == Spec => []EachCycleBilledOnce
<1>1. TypeInv /\ ScheduleInv /\ ChainInv => EachCycleBilledOnce
  <2> SUFFICES ASSUME TypeInv, ScheduleInv, ChainInv, NEW i \in 1..(Len(periods) - 1)
               PROVE  EachCycleBilledOnce!(i)
    BY DEF EachCycleBilledOnce
  <2> DEFINE a == periods[i].dueDate
             b == periods[i + 1].dueDate
  <2>1. periods \in Seq(Period) /\ i \in DOMAIN periods /\ i + 1 \in DOMAIN periods
    BY DEF TypeInv, TypeOK
  <2>2. a \in Dates
    <3>1. periods[i] \in Period
      BY <2>1
    <3> QED BY <3>1 DEF Period
  <2>3. lease.paymentFrequency \in Frequencies
    <3>1. pc \notin {"getLease", "notFound"}
      BY <2>1 DEF ScheduleInv
    <3> QED BY <3>1, LedgerAssumption DEF TypeInv, Lease
  <2>4. b = AddByFrequency(a, lease.paymentFrequency)
    BY DEF ChainInv
  <2>5. /\ lease.paymentFrequency = "weekly"    => Ordinal(b) - Ordinal(a) = 7
        /\ lease.paymentFrequency = "biweekly"  => Ordinal(b) - Ordinal(a) = 14
        /\ lease.paymentFrequency = "monthly"   => b.month - a.month \in {1, 2}
        /\ lease.paymentFrequency = "quarterly" => b.month - a.month \in {3, 4}
        /\ lease.paymentFrequency = "yearly"    => b.month - a.month \in {12, 13}
    <3> HIDE DEF a, b
    <3> QED BY <2>2, <2>3, <2>4, CycleStep
  <2>6. CASE lease.paymentFrequency = "weekly"
    BY <2>5, <2>6
  <2>7. CASE lease.paymentFrequency = "biweekly"
    BY <2>5, <2>7
  <2>8. CASE lease.paymentFrequency = "monthly"
    BY <2>5, <2>8
  <2>9. CASE lease.paymentFrequency = "quarterly"
    BY <2>5, <2>9
  <2>10. CASE lease.paymentFrequency = "yearly"
    BY <2>5, <2>10
  <2> QED BY <2>3, <2>6, <2>7, <2>8, <2>9, <2>10 DEF Frequencies
<1> QED BY <1>1, ChainHolds, PTL

-----------------------------------------------------------------------------
(* Sums over the oldest periods.                                           *)

\* What period i holds when r has been poured into periods of a each.
Level(i, r, a) ==
    LET reached == AtLeastZero(r - (i - 1) * a)
    IN  IF reached < a THEN reached ELSE a

\* Columns of m periods of a each into which r has been poured, and what they add up to:
\* m times the rent, what has been poured up to that, and what is missing.
LevelColumns(m, a, r, duef, paid, short) ==
    \A i \in 1..m : /\ duef[i] = a
                    /\ paid[i] = Level(i, r, a)
                    /\ short[i] = a - Level(i, r, a)

ColumnSums(m, a, r, duef, paid, short) ==
    /\ m * a \in Nat
    /\ SumFunctionOnSet(duef, 1..m) = m * a
    /\ SumFunctionOnSet(paid, 1..m) = IF r < m * a THEN r ELSE m * a
    /\ SumFunctionOnSet(short, 1..m) = IF r < m * a THEN m * a - r ELSE 0

LEMMA PrefixSums ==
    ASSUME NEW m \in Nat, NEW a \in Nat \ {0}, NEW r \in Nat,
           NEW duef, NEW paid, NEW short, LevelColumns(m, a, r, duef, paid, short)
    PROVE  ColumnSums(m, a, r, duef, paid, short)
<1> USE DEF LevelColumns
<1> DEFINE Holds(n) ==
             /\ n * a \in Nat
             /\ SumFunctionOnSet(duef, 1..n) = n * a
             /\ SumFunctionOnSet(paid, 1..n) = IF r < n * a THEN r ELSE n * a
             /\ SumFunctionOnSet(short, 1..n) = IF r < n * a THEN n * a - r ELSE 0
           S == {n \in 0..m : Holds(n)}
<1>1. Holds(0)
  <2>1. 1..0 = {} /\ 0 * a = 0
    OBVIOUS
  <2> QED BY <2>1, SumOfNone
<1>2. ASSUME NEW n \in 0..(m - 1), Holds(n) PROVE Holds(n + 1)
  <2> DEFINE q == n * a
  <2>1. q \in Nat /\ (n + 1) * a = q + a /\ (n + 1) - 1 = n
    BY <1>2
  <2>2. /\ 1..(n + 1) = (1..n) \cup {n + 1} /\ n + 1 \notin 1..n /\ IsFiniteSet(1..n)
        /\ 1..(n + 1) \subseteq 1..m
    <3>1. IsFiniteSet(1..n)
      BY FS_Interval
    <3> QED BY <3>1
  <2>3. \A i \in 1..m : Level(i, r, a) \in 0..a
    <3>1. ASSUME NEW i \in 1..m PROVE (i - 1) * a \in Int
      OBVIOUS
    <3> QED BY <3>1 DEF Level, AtLeastZero
  <2>4. \A i \in (1..n) \cup {n + 1} : duef[i] \in Int /\ paid[i] \in Int /\ short[i] \in Int
    <3>1. \A i \in 1..m : duef[i] \in Int /\ paid[i] \in Int /\ short[i] \in Int
      BY <2>3
    <3> QED BY <2>2, <3>1
  <2>5. /\ SumFunctionOnSet(duef, 1..(n + 1)) = duef[n + 1] + SumFunctionOnSet(duef, 1..n)
        /\ SumFunctionOnSet(paid, 1..(n + 1)) = paid[n + 1] + SumFunctionOnSet(paid, 1..n)
        /\ SumFunctionOnSet(short, 1..(n + 1)) = short[n + 1] + SumFunctionOnSet(short, 1..n)
    BY <2>2, <2>4, SumGrows
  <2>6. Level(n + 1, r, a) = IF r < q THEN 0 ELSE IF r < q + a THEN r - q ELSE a
    BY <2>1 DEF Level, AtLeastZero
  <2>7. /\ duef[n + 1] = a /\ paid[n + 1] = Level(n + 1, r, a)
        /\ short[n + 1] = a - Level(n + 1, r, a)
    BY <2>2
  <2>8. /\ SumFunctionOnSet(duef, 1..n) = q
        /\ SumFunctionOnSet(paid, 1..n) = IF r < q THEN r ELSE q
        /\ SumFunctionOnSet(short, 1..n) = IF r < q THEN q - r ELSE 0
    BY <1>2
  <2> HIDE DEF q
  <2>9. /\ SumFunctionOnSet(duef, 1..(n + 1)) = q + a
        /\ SumFunctionOnSet(paid, 1..(n + 1)) = IF r < q + a THEN r ELSE q + a
        /\ SumFunctionOnSet(short, 1..(n + 1)) = IF r < q + a THEN q + a - r ELSE 0
    BY <2>1, <2>5, <2>6, <2>7, <2>8
  <2> QED BY <2>1, <2>9
<1>3. 0..m \subseteq S
  <2> HIDE DEF Holds
  <2>1. 0 \in S /\ \A n \in 0..(m - 1) : n \in S => n + 1 \in S
    BY <1>1, <1>2
  <2> HIDE DEF S
  <2> QED BY <2>1, IntervalInduction
<1> QED BY <1>3 DEF ColumnSums

-----------------------------------------------------------------------------
(* The allocation.  The payments taken so far, the part of the current one *)
(* that is applied, and what every period and every payment shows of them. *)

Taken == {payQueue[j] : j \in 1..(p - 1)}

Poured ==
    SumFunctionOnSet(Amounts, Taken)
      + (IF pc = "period" THEN payQueue[p].amount - remaining ELSE 0)

\* The queue is a permutation of the payments; p stays within it.
QueueInv ==
    IF pc \in {"payment", "period", "done"}
      THEN /\ payQueue \in SetToSeqs(payments)
           /\ p <= Len(payQueue) + 1
           /\ pc = "period" => remaining <= payQueue[p].amount
           /\ pc = "done" => p = Len(payQueue) + 1
      ELSE p = 1 /\ \A i \in DOMAIN periods : periods[i].payments = <<>>

LevelInv ==
    pc \in {"payment", "period", "done"} =>
       \A i \in DOMAIN periods : periods[i].amountPaid = Level(i, Poured, lease.amount)

\* Slices and AppliedOf as functions of the periods.
SlicesIn(ps, x) ==
    UNION {{<<i, j>> : j \in {n \in DOMAIN ps[i].payments : ps[i].payments[n].id = x.id}} :
             i \in DOMAIN ps}
AppliedIn(ps, x) ==
    SumFunctionOnSet([s \in SlicesIn(ps, x) |-> ps[s[1]].payments[s[2]].amount], SlicesIn(ps, x))

WellShown(ps, x) ==
    /\ IsFiniteSet(SlicesIn(ps, x))
    /\ \A s \in SlicesIn(ps, x) : ps[s[1]].payments[s[2]].amount \in Nat

\* A payment not taken yet shows nothing; the current one what is applied of it; one
\* that is done with all of it, unless every period is full.
ShownInv(x) ==
    /\ WellShown(periods, x)
    /\ IF x \in Taken
         THEN /\ AppliedIn(periods, x) <= x.amount
              /\ AppliedIn(periods, x) < x.amount => \A i \in DOMAIN periods : periods[i].balance = 0
         ELSE IF pc = "period" /\ x = payQueue[p]
                THEN AppliedIn(periods, x) = x.amount - remaining
                ELSE AppliedIn(periods, x) = 0

WaterInv == QueueInv /\ LevelInv /\ \A x \in payments : ShownInv(x)

\* The queue, by its length and its elements.
LEMMA QueueFacts ==
    ASSUME TypeInv, payQueue \in SetToSeqs(payments)
    PROVE  /\ payments \subseteq Payment /\ IsFiniteSet(payments)
           /\ \A x, y \in payments : x.id = y.id => x = y
           /\ Len(payQueue) \in Nat /\ DOMAIN payQueue = 1..Len(payQueue)
           /\ \A j \in 1..Len(payQueue) : payQueue[j] \in payments
           /\ \A i, j \in 1..Len(payQueue) : payQueue[i] = payQueue[j] => i = j
           /\ {payQueue[j] : j \in 1..Len(payQueue)} = payments
<1>1. /\ payments \subseteq Payment /\ IsFiniteSet(payments)
      /\ \A x, y \in payments : x.id = y.id => x = y
  BY LedgerAssumption DEF TypeInv, TypeOK
<1>2. Cardinality(payments) \in Nat
  BY <1>1, FS_CardinalityType
<1>3. /\ payQueue \in [1..Cardinality(payments) -> payments]
      /\ \A i, j \in 1..Cardinality(payments) : i # j => payQueue[i] # payQueue[j]
  BY DEF SetToSeqs
<1>4. Len(payQueue) = Cardinality(payments)
  BY <1>2, <1>3 DEF TypeInv, TypeOK
<1>5. payQueue \in Injection(1..Cardinality(payments), payments)
  BY <1>3, Fun_IsInj
<1>6. IsFiniteSet(1..Cardinality(payments)) /\ Cardinality(1..Cardinality(payments)) = Cardinality(payments)
  BY <1>2, FS_Interval
<1>7. payQueue \in Surjection(1..Cardinality(payments), payments)
  BY <1>1, <1>5, <1>6, FS_Injection
<1>8. \A x \in payments : \E j \in 1..Cardinality(payments) : payQueue[j] = x
  BY <1>7 DEF Surjection
<1>9. {payQueue[j] : j \in 1..Len(payQueue)} = payments
  BY <1>3, <1>4, <1>8
<1> QED BY <1>1, <1>2, <1>3, <1>4, <1>9

LEMMA SlicesInIs ==
    ASSUME NEW ps, NEW x, NEW s
    PROVE  s \in SlicesIn(ps, x) <=>
             \E i \in DOMAIN ps : \E j \in DOMAIN ps[i].payments :
                s = <<i, j>> /\ ps[i].payments[j].id = x.id
  BY DEF SlicesIn

LEMMA PairIsSlice ==
    ASSUME NEW ps, NEW x, NEW i, NEW j
    PROVE  <<i, j>> \in SlicesIn(ps, x) <=>
             i \in DOMAIN ps /\ j \in DOMAIN ps[i].payments /\ ps[i].payments[j].id = x.id
  BY SlicesInIs

LEMMA AppliedIsInt ==
    ASSUME NEW ps, NEW x, WellShown(ps, x)
    PROVE  AppliedIn(ps, x) \in Int
<1> DEFINE f == [s \in SlicesIn(ps, x) |-> ps[s[1]].payments[s[2]].amount]
<1>1. \A s \in SlicesIn(ps, x) : f[s] \in Int
  BY DEF WellShown
<1> HIDE DEF f
<1>2. SumFunctionOnSet(f, SlicesIn(ps, x)) \in Int
  BY <1>1, SumTakesOne DEF WellShown
<1> QED BY <1>2 DEF AppliedIn, f

\* Where no period lists a payment, none shows anything.
LEMMA NothingShown ==
    ASSUME NEW ps, NEW x, \A i \in DOMAIN ps : ps[i].payments = <<>>
    PROVE  WellShown(ps, x) /\ AppliedIn(ps, x) = 0
<1>1. SlicesIn(ps, x) = {}
  BY DEF SlicesIn
<1> QED BY <1>1, FS_EmptySet, SumOfNone DEF WellShown, AppliedIn

\* A slice of n of payment x is listed with period m: x shows n more, the others what
\* they showed.
LEMMA SliceAdded ==
    ASSUME NEW ps \in Seq(Period), NEW m \in DOMAIN ps, NEW n \in Nat, NEW x, NEW y,
           NEW qs, DOMAIN qs = DOMAIN ps, \A i \in DOMAIN ps : i # m => qs[i] = ps[i],
           qs[m].payments = Append(ps[m].payments, [id |-> x.id, amount |-> n]),
           WellShown(ps, y)
    PROVE  /\ WellShown(qs, y)
           /\ AppliedIn(qs, y) = AppliedIn(ps, y) + (IF x.id = y.id THEN n ELSE 0)
<1> DEFINE old == ps[m].payments
           slice == [id |-> x.id, amount |-> n]
           new == <<m, Len(old) + 1>>
           f == [s \in SlicesIn(ps, y) |-> ps[s[1]].payments[s[2]].amount]
           h == [s \in SlicesIn(qs, y) |-> qs[s[1]].payments[s[2]].amount]
<1>1. old \in Seq(Slice)
  <2>1. ps[m] \in Period
    OBVIOUS
  <2> QED BY <2>1 DEF Period
<1>2. /\ DOMAIN qs = DOMAIN ps
      /\ \A i \in DOMAIN ps : i # m => qs[i] = ps[i]
      /\ qs[m].payments = Append(old, slice)
  OBVIOUS
<1> HIDE DEF old, slice
<1>3. /\ DOMAIN Append(old, slice) = DOMAIN old \cup {Len(old) + 1}
      /\ Len(old) + 1 \notin DOMAIN old
      /\ \A j \in DOMAIN old : Append(old, slice)[j] = old[j]
      /\ Append(old, slice)[Len(old) + 1] = slice
  BY <1>1
<1>4. slice.id = x.id /\ slice.amount = n
  BY DEF slice
<1>5. \A s \in SlicesIn(ps, y) : s # new /\ qs[s[1]].payments[s[2]] = ps[s[1]].payments[s[2]]
  <2> SUFFICES ASSUME NEW i \in DOMAIN ps, NEW j \in DOMAIN ps[i].payments
               PROVE  <<i, j>> # new /\ qs[i].payments[j] = ps[i].payments[j]
    BY SlicesInIs
  <2> QED BY <1>2, <1>3 DEF old
<1>6. SlicesIn(qs, y) = SlicesIn(ps, y) \cup (IF x.id = y.id THEN {new} ELSE {})
  <2>1. ASSUME NEW s \in SlicesIn(ps, y) PROVE s \in SlicesIn(qs, y)
    <3>1. \E i \in DOMAIN ps : \E j \in DOMAIN ps[i].payments :
             s = <<i, j>> /\ ps[i].payments[j].id = y.id
      BY <2>1, SlicesInIs
    <3>2. PICK i \in DOMAIN ps : \E j \in DOMAIN ps[i].payments :
             s = <<i, j>> /\ ps[i].payments[j].id = y.id
      BY <3>1
    <3>3. PICK j \in DOMAIN ps[i].payments : s = <<i, j>> /\ ps[i].payments[j].id = y.id
      BY <3>2
    <3>4. j \in DOMAIN qs[i].payments /\ qs[i].payments[j].id = y.id
      BY <1>2, <1>3, <3>3 DEF old
    <3> QED BY <1>2, <3>3, <3>4, PairIsSlice
  <2>2. ASSUME NEW s \in SlicesIn(qs, y), s # new PROVE s \in SlicesIn(ps, y)
    <3>1. \E i \in DOMAIN qs : \E j \in DOMAIN qs[i].payments :
             s = <<i, j>> /\ qs[i].payments[j].id = y.id
      BY <2>2, SlicesInIs
    <3>2. PICK i \in DOMAIN qs : \E j \in DOMAIN qs[i].payments :
             s = <<i, j>> /\ qs[i].payments[j].id = y.id
      BY <3>1
    <3>3. PICK j \in DOMAIN qs[i].payments : s = <<i, j>> /\ qs[i].payments[j].id = y.id
      BY <3>2
    <3>4. i \in DOMAIN ps /\ j \in DOMAIN ps[i].payments /\ ps[i].payments[j].id = y.id
      BY <1>2, <1>3, <2>2, <3>3 DEF old
    <3> QED BY <3>3, <3>4, PairIsSlice
  <2>3. new \in SlicesIn(qs, y) <=> x.id = y.id
    <3>1. new \in SlicesIn(qs, y) <=> qs[m].payments[Len(old) + 1].id = y.id
      BY <1>2, <1>3, PairIsSlice
    <3> QED BY <1>2, <1>3, <1>4, <3>1
  <2> HIDE DEF new
  <2> QED BY <2>1, <2>2, <2>3
<1>7. qs[new[1]].payments[new[2]].amount = n
  BY <1>2, <1>3, <1>4
<1>8. new \notin SlicesIn(ps, y)
  BY <1>5
<1> HIDE DEF new
<1>9. WellShown(qs, y)
  <2>1. IsFiniteSet(SlicesIn(qs, y))
    <3>1. IsFiniteSet(SlicesIn(ps, y))
      BY DEF WellShown
    <3>2. IsFiniteSet(SlicesIn(ps, y) \cup {new}) /\ SlicesIn(ps, y) \cup {} = SlicesIn(ps, y)
      BY <3>1, FS_AddElement
    <3> QED BY <1>6, <3>1, <3>2
  <2>2. \A s \in SlicesIn(qs, y) : qs[s[1]].payments[s[2]].amount \in Nat
    BY <1>5, <1>6, <1>7 DEF WellShown
  <2> QED BY <2>1, <2>2 DEF WellShown
<1>10. /\ \A s \in SlicesIn(ps, y) : f[s] \in Int /\ h[s] = f[s]
       /\ IsFiniteSet(SlicesIn(ps, y))
  <2>1. ASSUME NEW s \in SlicesIn(ps, y) PROVE f[s] \in Int /\ h[s] = f[s]
    <3>1. s \in SlicesIn(qs, y) /\ ps[s[1]].payments[s[2]].amount \in Nat
      BY <1>6 DEF WellShown
    <3>2. f[s] = ps[s[1]].payments[s[2]].amount
      OBVIOUS
    <3>3. h[s] = qs[s[1]].payments[s[2]].amount
      BY <3>1
    <3> QED BY <1>5, <3>1, <3>2, <3>3
  <2> HIDE DEF f, h
  <2> QED BY <2>1 DEF WellShown
<1>11. \A s \in SlicesIn(qs, y) : h[s] \in Int
  <2>1. \A s \in SlicesIn(qs, y) : h[s] = qs[s[1]].payments[s[2]].amount
    OBVIOUS
  <2>2. \A s \in SlicesIn(qs, y) : qs[s[1]].payments[s[2]].amount \in Nat
    BY <1>9 DEF WellShown
  <2> HIDE DEF h
  <2> QED BY <2>1, <2>2
<1>12. x.id = y.id => h[new] = n
  BY <1>6, <1>7
<1> HIDE DEF f, h
<1>13. SumFunctionOnSet(h, SlicesIn(ps, y)) = SumFunctionOnSet(f, SlicesIn(ps, y))
  BY <1>10, SumOfSame
<1>14. SumFunctionOnSet(f, SlicesIn(ps, y)) \in Int
  BY <1>10, SumTakesOne
<1>15. SumFunctionOnSet(h, SlicesIn(qs, y))
         = SumFunctionOnSet(f, SlicesIn(ps, y)) + (IF x.id = y.id THEN n ELSE 0)
  <2>1. CASE x.id = y.id
    <3>1. SumFunctionOnSet(h, SlicesIn(qs, y)) = h[new] + SumFunctionOnSet(h, SlicesIn(ps, y))
      BY <1>6, <1>8, <1>10, <1>11, <2>1, SumGrows
    <3> QED BY <1>12, <1>13, <1>14, <2>1, <3>1
  <2>2. CASE x.id # y.id
    BY <1>6, <1>13, <1>14, <2>2
  <2> QED BY <2>1, <2>2
<1> QED BY <1>9, <1>15 DEF AppliedIn, f, h

\* What has been poured is a natural number, and taking one more payment adds its amount.
LEMMA PouredFacts ==
    ASSUME TypeInv, QueueInv, pc \in {"payment", "period", "done"}
    PROVE  /\ Taken \subseteq payments /\ IsFiniteSet(Taken)
           /\ \A x \in payments : Amounts[x] = x.amount /\ x.amount \in Nat \ {0}
           /\ SumFunctionOnSet(Amounts, Taken) \in Nat
           /\ p <= Len(payQueue) =>
                 /\ payQueue[p] \in payments \ Taken
                 /\ {payQueue[j] : j \in 1..p} = Taken \cup {payQueue[p]}
                 /\ SumFunctionOnSet(Amounts, Taken \cup {payQueue[p]})
                      = SumFunctionOnSet(Amounts, Taken) + payQueue[p].amount
<1>1. /\ payments \subseteq Payment /\ IsFiniteSet(payments)
      /\ Len(payQueue) \in Nat
      /\ \A j \in 1..Len(payQueue) : payQueue[j] \in payments
      /\ \A i, j \in 1..Len(payQueue) : payQueue[i] = payQueue[j] => i = j
      /\ p \in Nat \ {0} /\ p <= Len(payQueue) + 1
  BY QueueFacts DEF QueueInv, TypeInv, TypeOK
<1>2. Taken \subseteq payments
  BY <1>1 DEF Taken
<1>3. IsFiniteSet(Taken)
  BY <1>1, <1>2, FS_Subset
<1>4. \A x \in payments : Amounts[x] = x.amount /\ x.amount \in Nat \ {0}
  BY <1>1 DEF Amounts, Payment
<1>5. SumFunctionOnSet(Amounts, Taken) \in Nat
  BY <1>2, <1>3, <1>4, SumOfNaturals
<1>6. ASSUME p <= Len(payQueue)
      PROVE  /\ payQueue[p] \in payments \ Taken
             /\ {payQueue[j] : j \in 1..p} = Taken \cup {payQueue[p]}
  <2>1. payQueue[p] \in payments
    BY <1>1, <1>6
  <2>2. payQueue[p] \notin Taken
    BY <1>1, <1>6 DEF Taken
  <2>3. 1..p = 1..(p - 1) \cup {p}
    BY <1>1
  <2> QED BY <2>1, <2>2, <2>3 DEF Taken
<1>7. ASSUME p <= Len(payQueue)
      PROVE  SumFunctionOnSet(Amounts, Taken \cup {payQueue[p]})
               = SumFunctionOnSet(Amounts, Taken) + payQueue[p].amount
  <2>1. payQueue[p] \in payments \ Taken
    BY <1>6, <1>7
  <2>2. \A x \in Taken \cup {payQueue[p]} : Amounts[x] \in Int
    BY <1>2, <1>4, <2>1
  <2>3. SumFunctionOnSet(Amounts, Taken \cup {payQueue[p]})
          = Amounts[payQueue[p]] + SumFunctionOnSet(Amounts, Taken)
    BY <1>3, <2>1, <2>2, SumGrows
  <2> QED BY <1>4, <1>5, <2>1, <2>3
<1> QED BY <1>2, <1>3, <1>4, <1>5, <1>6, <1>7

\* What the oldest-first rule gives for the levels.
LEMMA LevelFacts ==
    ASSUME NEW a \in Nat \ {0}, NEW r \in Nat, NEW i \in Nat \ {0}
    PROVE  /\ Level(i, 0, a) = 0
           /\ Level(i, r, a) \in 0..a
           /\ Level(i, r, a) = a => \A n \in Nat : Level(i, r + n, a) = a
<1>1. (i - 1) * a \in Nat
  OBVIOUS
<1> QED BY <1>1 DEF Level, AtLeastZero

\* Pouring n more, no more than fits into period m, the first that is not full.
LEMMA LevelRises ==
    ASSUME NEW a \in Nat \ {0}, NEW r \in Nat, NEW m \in Nat \ {0}, NEW n \in Nat,
           Level(m, r, a) < a, n <= a - Level(m, r, a),
           m > 1 => Level(m - 1, r, a) = a, NEW i \in Nat \ {0}
    PROVE  Level(i, r + n, a) = IF i = m THEN Level(m, r, a) + n ELSE Level(i, r, a)
<1> DEFINE q(j) == (j - 1) * a
<1>1. q(m) \in Nat /\ q(i) \in Nat
  OBVIOUS
<1>2. q(m) <= r
  <2>1. CASE m = 1
    BY <2>1
  <2>2. CASE m > 1
    <3>1. q(m - 1) \in Nat /\ q(m) = q(m - 1) + a
      BY <2>2
    <3>2. q(m - 1) + a <= r
      BY <2>2, <3>1 DEF Level, AtLeastZero
    <3> QED BY <3>1, <3>2
  <2> QED BY <2>1, <2>2
<1>3. i < m => q(i) + a <= q(m)
  <2> SUFFICES ASSUME i < m PROVE q(i) + a <= q(m)
    OBVIOUS
  <2>1. q(m) = q(i) + (m - i) * a
    OBVIOUS
  <2>2. m - i \in Nat \ {0}
    OBVIOUS
  <2>3. (m - i) * a >= a
    BY <2>2
  <2> QED BY <1>1, <2>1, <2>3
<1>4. i > m => q(m) + a <= q(i)
  <2> SUFFICES ASSUME i > m PROVE q(m) + a <= q(i)
    OBVIOUS
  <2>1. q(i) = q(m) + (i - m) * a
    OBVIOUS
  <2>2. i - m \in Nat \ {0}
    OBVIOUS
  <2>3. (i - m) * a >= a
    BY <2>2
  <2> QED BY <1>1, <2>1, <2>3
<1>5. \A j, t : Level(j, t, a) = IF AtLeastZero(t - q(j)) < a THEN AtLeastZero(t - q(j)) ELSE a
  BY DEF Level
<1> HIDE DEF q
<1>6. r - q(m) < a /\ Level(m, r, a) = r - q(m) /\ n <= a - (r - q(m))
  BY <1>1, <1>2, <1>5 DEF AtLeastZero
<1>7. CASE i = m
  BY <1>1, <1>2, <1>5, <1>6, <1>7 DEF AtLeastZero
<1>8. CASE i < m
  BY <1>1, <1>2, <1>3, <1>5, <1>6, <1>8 DEF AtLeastZero
<1>9. CASE i > m
  BY <1>1, <1>2, <1>4, <1>5, <1>6, <1>9 DEF AtLeastZero
<1> QED BY <1>7, <1>8, <1>9

LedgerInv == TypeInv /\ ScheduleInv /\ FifoInv /\ ChainInv /\ WaterInv

\* Before the payments are read nothing is shown of them.
LEMMA EarlyWater ==
    QueueInv /\ pc \notin {"payment", "period", "done"} => WaterInv
<1> SUFFICES ASSUME QueueInv, pc \notin {"payment", "period", "done"} PROVE WaterInv
  OBVIOUS
<1>1. p = 1 /\ \A i \in DOMAIN periods : periods[i].payments = <<>>
  BY DEF QueueInv
<1>2. Taken = {}
  BY <1>1 DEF Taken
<1>3. ASSUME NEW x PROVE ShownInv(x)
  BY <1>1, <1>2, NothingShown DEF ShownInv
<1>4. LevelInv
  BY DEF LevelInv
<1> QED BY <1>3, <1>4 DEF WaterInv

\* The periods during the allocation, and the money in hand.
LEMMA PeriodFacts ==
    ASSUME LedgerInv, pc \in {"payment", "period", "done"}
    PROVE  /\ lease.amount \in Nat \ {0}
           /\ periods \in Seq(Period) /\ Len(periods) \in Nat /\ DOMAIN periods = 1..Len(periods)
           /\ Poured \in Nat
           /\ \A i \in DOMAIN periods :
                 /\ periods[i] \in Period
                 /\ periods[i].amountDue = lease.amount
                 /\ periods[i].amountPaid \in Nat /\ periods[i].balance \in Nat
                 /\ periods[i].amountPaid + periods[i].balance = lease.amount
                 /\ periods[i].amountPaid = Level(i, Poured, lease.amount)
           /\ pc = "period" => /\ p \in 1..Len(payQueue) /\ payQueue[p] \in payments
                               /\ remaining \in Nat /\ remaining <= payQueue[p].amount
                               /\ payQueue[p].amount \in Nat \ {0}
<1> USE DEF LedgerInv
<1>1. lease \in Lease
  BY LedgerAssumption DEF TypeInv
<1>2. periods \in Seq(Period) /\ Len(periods) \in Nat /\ DOMAIN periods = 1..Len(periods)
  BY DEF TypeInv, TypeOK
<1>3. ASSUME NEW i \in DOMAIN periods
      PROVE  /\ periods[i] \in Period
             /\ periods[i].amountDue = lease.amount
             /\ periods[i].amountPaid \in Nat /\ periods[i].balance \in Nat
             /\ periods[i].amountPaid + periods[i].balance = lease.amount
             /\ periods[i].amountPaid = Level(i, Poured, lease.amount)
  <2>1. periods[i] \in Period
    BY <1>2
  <2>2. periods[i].amountDue = lease.amount
    BY DEF ChainInv
  <2>3. periods[i].amountPaid + periods[i].balance = periods[i].amountDue
    BY DEF FifoInv, OldestPeriodFirst
  <2> QED BY <2>1, <2>2, <2>3 DEF Period, WaterInv, LevelInv
<1>4. SumFunctionOnSet(Amounts, Taken) \in Nat
  BY PouredFacts DEF WaterInv
<1>5. pc = "period" => /\ p \in 1..Len(payQueue) /\ payQueue[p] \in payments
                       /\ remaining \in Nat /\ remaining <= payQueue[p].amount
                       /\ payQueue[p].amount \in Nat \ {0}
  <2> SUFFICES ASSUME pc = "period"
               PROVE  /\ p \in 1..Len(payQueue) /\ payQueue[p] \in payments
                      /\ remaining \in Nat /\ remaining <= payQueue[p].amount
                      /\ payQueue[p].amount \in Nat \ {0}
    OBVIOUS
  <2>1. p \in 1..Len(payQueue) /\ remaining \in Nat
    BY DEF TypeInv, TypeOK
  <2>2. payQueue[p] \in payments /\ payQueue[p].amount \in Nat \ {0}
    BY <2>1, PouredFacts DEF WaterInv
  <2>3. remaining <= payQueue[p].amount
    BY DEF WaterInv, QueueInv
  <2> QED BY <2>1, <2>2, <2>3
<1>6. Poured \in Nat
  BY <1>4, <1>5 DEF Poured
<1> QED BY <1>1, <1>2, <1>3, <1>5, <1>6 DEF Lease

\* Steps that read nothing of the payments.
LEMMA ScheduleKeepsWater ==
    ASSUME LedgerInv, GetLease \/ FirstDueOnOrAfter \/ BuildBillingSchedule
    PROVE  WaterInv'
<1>1. periods \in Seq(Period)
  BY DEF LedgerInv, TypeInv, TypeOK
<1>2. /\ pc \notin {"payment", "period", "done"} /\ pc' \notin {"payment", "period", "done"}
      /\ p' = p
      /\ periods' = periods \/ periods' = Append(periods, NewPeriod)
  BY DEF GetLease, FirstDueOnOrAfter, BuildBillingSchedule
<1>3. p = 1 /\ \A i \in DOMAIN periods : periods[i].payments = <<>>
  BY <1>2 DEF LedgerInv, WaterInv, QueueInv
<1>4. \A i \in DOMAIN periods' : periods'[i].payments = <<>>
  <2>1. CASE periods' = periods
    BY <1>3, <2>1
  <2>2. CASE periods' = Append(periods, NewPeriod)
    <3>1. ASSUME NEW i \in DOMAIN periods' PROVE periods'[i] = NewPeriod \/ (i \in DOMAIN periods /\ periods'[i] = periods[i])
      BY <1>1, <2>2
    <3>2. NewPeriod.payments = <<>>
      BY DEF NewPeriod
    <3> QED BY <1>3, <3>1, <3>2
  <2> QED BY <1>2, <2>1, <2>2
<1>5. QueueInv'
  BY <1>2, <1>3, <1>4 DEF QueueInv
<1>6. (QueueInv /\ pc \notin {"payment", "period", "done"} => WaterInv)'
  BY EarlyWater, PTL
<1> QED BY <1>2, <1>5, <1>6

\* The payments are read and put in order: none is taken yet.
LEMMA ReadKeepsWater ==
    ASSUME LedgerInv, GetPayments, TypeInv'
    PROVE  WaterInv'
<1>1. /\ pc = "getPayments" /\ pc' = "payment"
      /\ payQueue' \in SetToSeqs(payments)
      /\ UNCHANGED <<lease, payments, periods, p>>
  BY DEF GetPayments
<1>2. p = 1 /\ \A i \in DOMAIN periods : periods[i].payments = <<>>
  BY <1>1 DEF LedgerInv, WaterInv, QueueInv
<1>3. Taken' = {}
  BY <1>1, <1>2 DEF Taken
<1>4. Poured' = 0
  BY <1>1, <1>3, SumOfNone DEF Poured
<1>5. Len(payQueue') \in Nat
  BY DEF TypeInv, TypeOK
<1>6. QueueInv'
  BY <1>1, <1>2, <1>5 DEF QueueInv
<1>7. LevelInv'
  <2>1. lease.amount \in Nat \ {0}
    BY <1>1, LedgerAssumption DEF LedgerInv, TypeInv, Lease
  <2>2. ASSUME NEW i \in DOMAIN periods PROVE periods[i].amountPaid = Level(i, 0, lease.amount)
    <3>1. periods[i].amountPaid = 0 /\ i \in Nat \ {0}
      BY <1>1 DEF LedgerInv, FifoInv, TypeInv, TypeOK
    <3> QED BY <2>1, <3>1, LevelFacts
  <2> QED BY <1>1, <1>4, <2>2 DEF LevelInv
<1>8. ASSUME NEW x PROVE ShownInv(x)'
  <2>1. WellShown(periods, x) /\ AppliedIn(periods, x) = 0
    BY <1>2, NothingShown
  <2> QED BY <1>1, <1>3, <2>1 DEF ShownInv
<1> QED BY <1>6, <1>7, <1>8 DEF WaterInv

\* A payment is taken in hand: nothing of it is applied yet.
LEMMA TakeKeepsWater ==
    ASSUME LedgerInv, TakePayment
    PROVE  WaterInv'
<1>1. /\ pc = "payment" /\ pc' = "period" /\ p <= Len(payQueue)
      /\ remaining' = payQueue[p].amount
      /\ UNCHANGED <<lease, payments, periods, payQueue, p>>
  BY DEF TakePayment
<1>2. /\ payQueue[p] \in payments \ Taken
      /\ payQueue[p].amount \in Nat /\ SumFunctionOnSet(Amounts, Taken) \in Nat
  BY <1>1, PouredFacts DEF LedgerInv, WaterInv
<1>3. Taken' = Taken /\ Amounts' = Amounts
  BY <1>1 DEF Taken, Amounts
<1>4. Poured' = Poured
  BY <1>1, <1>2, <1>3 DEF Poured
<1>5. QueueInv'
  BY <1>1, <1>2 DEF LedgerInv, WaterInv, QueueInv
<1>6. LevelInv'
  BY <1>1, <1>4 DEF LedgerInv, WaterInv, LevelInv
<1>7. ASSUME NEW x \in payments PROVE ShownInv(x)'
  <2>1. ShownInv(x)
    BY DEF LedgerInv, WaterInv
  <2> QED BY <1>1, <1>2, <1>3, <2>1 DEF ShownInv
<1> QED BY <1>1, <1>5, <1>6, <1>7 DEF WaterInv

\* The payment in hand is put away, what is left of it dropped: that happens only when
\* every period is full.
LEMMA EndKeepsWater ==
    ASSUME LedgerInv, EndPayment
    PROVE  WaterInv'
<1>1. /\ pc = "period" /\ pc' = "payment" /\ p' = p + 1
      /\ k > Len(periods) \/ remaining <= 0
      /\ UNCHANGED <<lease, payments, periods, payQueue, remaining>>
  BY DEF EndPayment
<1> DEFINE a == lease.amount
           x0 == payQueue[p]
<1>2. /\ a \in Nat \ {0} /\ Poured \in Nat /\ DOMAIN periods = 1..Len(periods) /\ Len(periods) \in Nat
      /\ p \in 1..Len(payQueue) /\ remaining \in Nat /\ remaining <= x0.amount /\ x0.amount \in Nat
      /\ \A i \in DOMAIN periods :
            /\ periods[i].balance \in Nat
            /\ periods[i].amountPaid + periods[i].balance = a
            /\ periods[i].amountPaid = Level(i, Poured, a)
            /\ periods[i].amountPaid \in Nat
  BY <1>1, PeriodFacts
<1>3. remaining > 0 => \A i \in DOMAIN periods : periods[i].balance = 0
  <2>1. k \in Nat
    BY DEF LedgerInv, TypeInv, TypeOK
  <2> QED BY <1>1, <1>2, <2>1 DEF LedgerInv, FifoInv
<1>4. /\ x0 \in payments \ Taken /\ {payQueue[j] : j \in 1..p} = Taken \cup {x0}
      /\ SumFunctionOnSet(Amounts, Taken) \in Nat
      /\ SumFunctionOnSet(Amounts, Taken \cup {x0}) = SumFunctionOnSet(Amounts, Taken) + x0.amount
  BY <1>1, <1>2, PouredFacts DEF LedgerInv, WaterInv
<1>5. Taken' = Taken \cup {x0} /\ Amounts' = Amounts
  <2>1. p' - 1 = p
    BY <1>1, <1>2
  <2> QED BY <1>1, <1>4, <2>1 DEF Taken, Amounts
<1>6. Poured' = Poured + remaining
  BY <1>1, <1>2, <1>4, <1>5 DEF Poured
<1>7. QueueInv'
  <2>1. p' <= Len(payQueue') + 1
    BY <1>1, <1>2
  <2> QED BY <1>1, <2>1 DEF LedgerInv, WaterInv, QueueInv
<1>8. LevelInv'
  <2>1. ASSUME NEW i \in DOMAIN periods PROVE periods[i].amountPaid = Level(i, Poured + remaining, a)
    <3>1. CASE remaining = 0
      <4>1. Poured + remaining = Poured
        BY <1>2, <3>1
      <4> QED BY <1>2, <4>1
    <3>2. CASE remaining # 0
      <4>1. periods[i].amountPaid = a /\ i \in Nat \ {0}
        BY <1>2, <1>3, <3>2
      <4>2. Level(i, Poured, a) = a
        BY <1>2, <4>1
      <4>3. a \in Nat \ {0} /\ Poured \in Nat /\ remaining \in Nat
        BY <1>2
      <4> HIDE DEF a
      <4>4. \A m \in Nat : Level(i, Poured + m, a) = a
        BY <4>1, <4>2, <4>3, LevelFacts
      <4> QED BY <4>1, <4>3, <4>4
    <3> QED BY <3>1, <3>2
  <2> QED BY <1>1, <1>6, <2>1 DEF LevelInv
<1>9. ASSUME NEW x \in payments PROVE ShownInv(x)'
  <2>1. ShownInv(x)
    BY DEF LedgerInv, WaterInv
  <2>2. CASE x = x0
    <3>1. AppliedIn(periods, x) = x.amount - remaining /\ WellShown(periods, x)
      BY <1>1, <1>4, <2>1, <2>2 DEF ShownInv
    <3>2. AppliedIn(periods, x) <= x.amount /\ (AppliedIn(periods, x) < x.amount => remaining > 0)
      BY <1>2, <2>2, <3>1
    <3> QED BY <1>1, <1>3, <1>5, <2>2, <3>1, <3>2 DEF ShownInv
  <2>3. CASE x # x0
    <3>1. x \in Taken' <=> x \in Taken
      BY <1>5, <2>3
    <3> QED BY <1>1, <2>1, <2>3, <3>1 DEF ShownInv
  <2> QED BY <2>2, <2>3
<1> QED BY <1>1, <1>7, <1>8, <1>9 DEF WaterInv

\* Part of the payment in hand goes to the first period that is not full.
LEMMA ApplyKeepsWater ==
    ASSUME LedgerInv, ApplyToPeriod
    PROVE  WaterInv'
<1> DEFINE a == lease.amount
           x0 == payQueue[p]
           n == Applied
<1>1. /\ pc = "period" /\ pc' = "period" /\ remaining > 0 /\ OpenPeriod
      /\ k <= Len(periods)
      /\ remaining' = remaining - n
      /\ periods' = [periods EXCEPT ![k] = PaidInto(periods[k], n, x0)]
      /\ UNCHANGED <<lease, payments, payQueue, p>>
  BY DEF ApplyToPeriod
<1>2. /\ a \in Nat \ {0} /\ Poured \in Nat /\ DOMAIN periods = 1..Len(periods) /\ Len(periods) \in Nat
      /\ periods \in Seq(Period)
      /\ p \in 1..Len(payQueue) /\ remaining \in Nat /\ remaining <= x0.amount /\ x0.amount \in Nat
      /\ \A i \in DOMAIN periods :
            /\ periods[i].balance \in Nat
            /\ periods[i].amountPaid + periods[i].balance = a
            /\ periods[i].amountPaid = Level(i, Poured, a)
            /\ periods[i].amountPaid \in Nat
  BY <1>1, PeriodFacts
<1>3. k \in Nat \ {0} /\ k \in DOMAIN periods
  BY <1>1, <1>2 DEF LedgerInv, TypeInv, TypeOK
<1>4. n \in Nat \ {0} /\ n <= periods[k].balance /\ n <= remaining
  BY <1>1, <1>3, AppliedBounds DEF LedgerInv
<1>5. periods[k].balance > 0 /\ \A i \in DOMAIN periods : i < k => periods[i].balance = 0
  BY <1>1 DEF LedgerInv, FifoInv, OpenPeriod
<1>6. /\ x0 \in payments \ Taken /\ SumFunctionOnSet(Amounts, Taken) \in Nat
      /\ \A x, y \in payments : x.id = y.id => x = y
  BY <1>1, <1>2, PouredFacts, QueueFacts DEF LedgerInv, WaterInv, QueueInv
<1> HIDE DEF n
<1>7. Taken' = Taken /\ Amounts' = Amounts
  BY <1>1 DEF Taken, Amounts
<1>8. Poured' = Poured + n
  <2> DEFINE s == SumFunctionOnSet(Amounts, Taken)
  <2>1. s' = s
    BY <1>7
  <2>2. Poured = s + (x0.amount - remaining)
    BY <1>1 DEF Poured
  <2>3. Poured' = s' + (x0.amount - remaining')
    BY <1>1 DEF Poured
  <2>4. s \in Nat
    BY <1>6
  <2> HIDE DEF s, x0
  <2> QED BY <1>1, <1>2, <1>4, <2>1, <2>2, <2>3, <2>4
<1>9. /\ DOMAIN periods' = DOMAIN periods
      /\ \A i \in DOMAIN periods : i # k => periods'[i] = periods[i]
      /\ periods'[k] = PaidInto(periods[k], n, x0)
  BY <1>1, <1>2, <1>3
<1>10. QueueInv'
  <2>1. remaining' <= payQueue'[p'].amount
    BY <1>1, <1>2, <1>4
  <2> QED BY <1>1, <2>1 DEF LedgerInv, WaterInv, QueueInv
<1>11. LevelInv'
  <2>1. ASSUME NEW i \in DOMAIN periods PROVE periods'[i].amountPaid = Level(i, Poured + n, a)
    <3> HIDE DEF a
    <3>1. Level(k, Poured, a) < a /\ n <= a - Level(k, Poured, a)
      <4>1. /\ periods[k].balance \in Nat /\ periods[k].amountPaid \in Nat
            /\ periods[k].amountPaid + periods[k].balance = a
            /\ periods[k].amountPaid = Level(k, Poured, a)
        BY <1>2, <1>3
      <4> QED BY <1>2, <1>4, <1>5, <4>1
    <3>2. k > 1 => Level(k - 1, Poured, a) = a
      <4> SUFFICES ASSUME k > 1 PROVE Level(k - 1, Poured, a) = a
        OBVIOUS
      <4>1. k - 1 \in DOMAIN periods /\ k - 1 < k
        BY <1>2, <1>3
      <4>2. periods[k - 1].balance = 0
        BY <1>5, <4>1
      <4> QED BY <1>2, <4>1, <4>2
    <3>3. Level(i, Poured + n, a) = IF i = k THEN Level(k, Poured, a) + n ELSE Level(i, Poured, a)
      <4>1. a \in Nat \ {0} /\ Poured \in Nat /\ n \in Nat
        BY <1>2, <1>3, <1>4
      <4>2. k \in Nat \ {0} /\ i \in Nat \ {0}
        BY <1>2, <1>3
      <4> HIDE DEF n
      <4> QED BY <3>1, <3>2, <4>1, <4>2, LevelRises
    <3>4. periods'[k].amountPaid = periods[k].amountPaid + n
      BY <1>9 DEF PaidInto
    <3> QED BY <1>2, <1>3, <1>9, <3>3, <3>4
  <2> QED BY <1>1, <1>8, <1>9, <2>1 DEF LevelInv
<1>12. ASSUME NEW y \in payments PROVE ShownInv(y)'
  <2>1. ShownInv(y)
    BY DEF LedgerInv, WaterInv
  <2>2. periods'[k].payments = Append(periods[k].payments, [id |-> x0.id, amount |-> n])
    BY <1>9 DEF PaidInto
  <2>3. /\ WellShown(periods', y)
        /\ AppliedIn(periods', y) = AppliedIn(periods, y) + (IF x0.id = y.id THEN n ELSE 0)
    <3>1. WellShown(periods, y) /\ n \in Nat /\ periods \in Seq(Period) /\ k \in DOMAIN periods
      BY <1>2, <1>3, <1>4, <2>1 DEF ShownInv
    <3> DEFINE qs == periods'
    <3>2. /\ DOMAIN qs = DOMAIN periods
          /\ \A i \in DOMAIN periods : i # k => qs[i] = periods[i]
          /\ qs[k].payments = Append(periods[k].payments, [id |-> x0.id, amount |-> n])
      BY <1>9, <2>2
    <3> HIDE DEF x0, qs
    <3>3. /\ WellShown(qs, y)
          /\ AppliedIn(qs, y) = AppliedIn(periods, y) + (IF x0.id = y.id THEN n ELSE 0)
      BY ONLY <3>1, <3>2, SliceAdded
    <3> QED BY <3>3 DEF qs
  <2>4. x0.id = y.id <=> x0 = y
    BY <1>6
  <2>5. CASE y = x0
    <3>1. AppliedIn(periods, y) = y.amount - remaining /\ y \notin Taken
      BY <1>1, <1>6, <2>1, <2>5 DEF ShownInv
    <3>2. AppliedIn(periods', y) = y.amount - remaining'
      BY <1>1, <1>2, <1>4, <2>3, <2>5, <3>1
    <3> QED BY <1>1, <1>7, <2>3, <2>5, <3>1, <3>2 DEF ShownInv
  <2>6. CASE y # x0 /\ y \in Taken
    <3>1. ~(AppliedIn(periods, y) < y.amount) /\ AppliedIn(periods, y) <= y.amount
      BY <1>3, <1>5, <2>1, <2>6 DEF ShownInv
    <3>2. AppliedIn(periods, y) = y.amount
      <4>1. y.amount \in Nat
        BY <1>1, PouredFacts DEF LedgerInv, WaterInv
      <4>2. AppliedIn(periods, y) \in Int
        BY <2>1, AppliedIsInt DEF ShownInv
      <4> QED BY <3>1, <4>1, <4>2
    <3>3. AppliedIn(periods', y) = y.amount /\ y.amount \in Nat
      <4>1. y.amount \in Nat
        BY <1>1, PouredFacts DEF LedgerInv, WaterInv
      <4> QED BY <2>3, <2>4, <2>6, <3>2, <4>1
    <3> QED BY <1>7, <2>3, <2>6, <3>3 DEF ShownInv
  <2>7. CASE y # x0 /\ y \notin Taken
    <3>1. AppliedIn(periods, y) = 0
      BY <2>1, <2>7 DEF ShownInv
    <3>2. AppliedIn(periods', y) = 0
      BY <2>3, <2>4, <2>7, <3>1
    <3> QED BY <1>1, <1>7, <2>3, <2>7, <3>2 DEF ShownInv
  <2> QED BY <2>5, <2>6, <2>7
<1> QED BY <1>1, <1>10, <1>11, <1>12 DEF WaterInv

LEMMA NextWaterInv == LedgerInv /\ TypeInv' /\ [Next]_vars => WaterInv'
<1> SUFFICES ASSUME LedgerInv, TypeInv', [Next]_vars PROVE WaterInv'
  OBVIOUS
<1>1. CASE GetLease \/ FirstDueOnOrAfter \/ BuildBillingSchedule
  BY <1>1, ScheduleKeepsWater
<1>2. CASE GetPayments
  BY <1>2, ReadKeepsWater
<1>3. CASE TakePayment
  BY <1>3, TakeKeepsWater
<1>4. CASE EndPayment
  BY <1>4, EndKeepsWater
<1>5. CASE ApplyToPeriod
  BY <1>5, ApplyKeepsWater
<1>6. ASSUME UNCHANGED <<lease, payments, periods, payQueue, p, remaining>>,
             pc' = pc \/ (pc = "payment" /\ pc' = "done" /\ p > Len(payQueue))
      PROVE  WaterInv'
  <2>1. /\ Taken' = Taken /\ Amounts' = Amounts
        /\ pc' = "period" <=> pc = "period"
        /\ pc' \in {"payment", "period", "done"} <=> pc \in {"payment", "period", "done"}
    BY <1>6 DEF Taken, Amounts
  <2>2. Poured' = Poured
    BY <1>6, <2>1 DEF Poured
  <2>3. QueueInv'
    <3>1. CASE pc' = pc
      BY <1>6, <3>1 DEF LedgerInv, WaterInv, QueueInv
    <3>2. CASE pc' # pc
      <4>1. pc = "payment" /\ p > Len(payQueue) /\ payQueue \in SetToSeqs(payments) /\ p <= Len(payQueue) + 1
        BY <1>6, <3>2 DEF LedgerInv, WaterInv, QueueInv
      <4>2. p \in Nat /\ Len(payQueue) \in Nat
        BY DEF LedgerInv, TypeInv, TypeOK
      <4>3. p = Len(payQueue) + 1
        BY <4>1, <4>2
      <4> QED BY <1>6, <3>2, <4>1, <4>3 DEF QueueInv
    <3> QED BY <3>1, <3>2
  <2>4. LevelInv'
    BY <1>6, <2>1, <2>2 DEF LedgerInv, WaterInv, LevelInv
  <2>5. ASSUME NEW x \in payments PROVE ShownInv(x)'
    <3>1. ShownInv(x)
      BY DEF LedgerInv, WaterInv
    <3> QED BY <1>6, <2>1, <3>1 DEF ShownInv
  <2> QED BY <1>6, <2>3, <2>4, <2>5 DEF WaterInv
<1>7. CASE SkipPaidPeriod
  BY <1>6, <1>7 DEF SkipPaidPeriod
<1>8. CASE Respond
  BY <1>6, <1>8 DEF Respond
<1>9. CASE UNCHANGED vars
  BY <1>6, <1>9 DEF vars
<1> QED BY <1>1, <1>2, <1>3, <1>4, <1>5, <1>7, <1>8, <1>9 DEF Next

LEMMA LedgerInvHolds == Spec => []LedgerInv
<1>1. Init => LedgerInv
  <2> SUFFICES ASSUME Init PROVE LedgerInv
    OBVIOUS
  <2>1. QueueInv /\ pc \notin {"payment", "period", "done"}
    BY DEF Init, QueueInv
  <2> QED BY <2>1, InitTypeInv, EarlyWater, LedgerAssumption
          DEF Init, LedgerInv, ScheduleInv, ScheduleWithinTerm, FifoInv, OldestPeriodFirst, ChainInv
<1>2. LedgerInv /\ [Next]_vars => LedgerInv'
  BY NextTypeInv, NextScheduleInv, NextFifoInv, NextChainInv, NextWaterInv DEF LedgerInv
<1> QED BY <1>1, <1>2, PTL DEF Spec

-----------------------------------------------------------------------------
(* What the finished ledger says.                                          *)

\* When the request is done, all payments have been poured.
LEMMA AllPoured ==
    ASSUME LedgerInv, pc = "done"
    PROVE  Taken = payments /\ Poured = Received /\ Received \in Nat
<1>1. payQueue \in SetToSeqs(payments) /\ p = Len(payQueue) + 1
  BY DEF LedgerInv, WaterInv, QueueInv
<1>2. /\ {payQueue[j] : j \in 1..Len(payQueue)} = payments
      /\ Len(payQueue) \in Nat
  BY <1>1, QueueFacts DEF LedgerInv
<1>3. p - 1 = Len(payQueue)
  BY <1>1, <1>2
<1>4. Taken = payments
  BY <1>2, <1>3 DEF Taken
<1>5. SumFunctionOnSet(Amounts, Taken) \in Nat
  BY PouredFacts DEF LedgerInv, WaterInv
<1> QED BY <1>4, <1>5 DEF Poured, Received

\* The columns of the oldest m periods of a finished ledger.
LEMMA OldestPeriods ==
    ASSUME LedgerInv, pc = "done", NEW m \in 0..Len(periods)
    PROVE  /\ m * lease.amount \in Nat
           /\ SumFunctionOnSet(Column("amountDue"), 1..m) = m * lease.amount
           /\ SumFunctionOnSet(Column("amountPaid"), 1..m)
                = IF Received < m * lease.amount THEN Received ELSE m * lease.amount
           /\ SumFunctionOnSet(Column("balance"), 1..m)
                = IF Received < m * lease.amount THEN m * lease.amount - Received ELSE 0
<1> DEFINE a == lease.amount
           r == Received
           duef == Column("amountDue")
           paid == Column("amountPaid")
           short == Column("balance")
<1>1. m \in Nat /\ 1..m \subseteq DOMAIN periods
  BY PeriodFacts
<1>2. a \in Nat \ {0} /\ r \in Nat
  BY PeriodFacts, AllPoured
<1>3. ASSUME NEW i \in 1..m
      PROVE  /\ duef[i] = a
             /\ paid[i] = Level(i, r, a)
             /\ short[i] = a - Level(i, r, a)
  <2>1. i \in DOMAIN periods
    BY <1>1
  <2>2. /\ periods[i].amountDue = a
        /\ periods[i].amountPaid \in Nat /\ periods[i].balance \in Nat
        /\ periods[i].amountPaid + periods[i].balance = a
        /\ periods[i].amountPaid = Level(i, r, a)
    BY <2>1, PeriodFacts, AllPoured
  <2>3. /\ duef[i] = periods[i].amountDue
        /\ paid[i] = periods[i].amountPaid
        /\ short[i] = periods[i].balance
    BY <2>1 DEF Column
  <2> HIDE DEF duef, paid, short
  <2> QED BY <1>2, <2>2, <2>3
<1> HIDE DEF a, r, duef, paid, short
<1>4. LevelColumns(m, a, r, duef, paid, short)
  BY <1>3 DEF LevelColumns
<1>5. ColumnSums(m, a, r, duef, paid, short)
  BY <1>1, <1>2, <1>4, PrefixSums
<1> QED BY <1>5 DEF ColumnSums, a, r, duef, paid, short

\* For every lease and every table of payments, however many and whatever their amounts and
\* dates, the ledger shows the money as one sum poured in from the oldest period: none
\* is invented, and none lost while a period is short.
THEOREM LedgerAlwaysWaterfall == Spec => []LedgerIsWaterfall
<1>1. LedgerInv => LedgerIsWaterfall
  <2> SUFFICES ASSUME LedgerInv, pc = "done" PROVE LedgerIsWaterfall
    BY DEF LedgerIsWaterfall
  <2> DEFINE a == lease.amount
             len == Len(periods)
  <2>1. /\ a \in Nat \ {0} /\ len \in Nat /\ DOMAIN periods = 1..len
        /\ Poured = Received /\ Received \in Nat /\ Taken = payments
        /\ \A i \in DOMAIN periods :
              /\ periods[i].amountPaid = Level(i, Received, a)
              /\ periods[i].amountPaid + periods[i].balance = a
              /\ periods[i].amountPaid \in Nat
    BY PeriodFacts, AllPoured
  <2>2. /\ len * a \in Nat
        /\ TotalDue = len * a
        /\ TotalPaid = IF Received < len * a THEN Received ELSE len * a
    <3>1. len \in 0..len
      BY <2>1
    <3> QED BY <2>1, <3>1, OldestPeriods DEF Total, TotalDue, TotalPaid
  <2>3. ASSUME NEW i \in DOMAIN periods
        PROVE  LET reached == AtLeastZero(Received - (i - 1) * lease.amount)
               IN  periods[i].amountPaid = IF reached < lease.amount THEN reached ELSE lease.amount
    BY <2>1 DEF Level
  <2>4. Outstanding = AtLeastZero(TotalDue - Received)
    <3> DEFINE full == len * a
    <3> HIDE DEF full
    <3> QED BY <2>1, <2>2 DEF Outstanding, AtLeastZero, full
  <2>5. (\A i \in DOMAIN periods : periods[i].balance = 0) => Outstanding = 0
    <3> SUFFICES ASSUME \A i \in DOMAIN periods : periods[i].balance = 0, len * a > Received
                 PROVE  FALSE
      BY <2>1, <2>2, <2>4 DEF AtLeastZero
    <3>1. len # 0
      BY <2>1
    <3>2. len \in DOMAIN periods
      BY <2>1, <3>1
    <3>3. Level(len, Received, a) = a
      <4>1. /\ periods[len].amountPaid = Level(len, Received, a)
            /\ periods[len].amountPaid + 0 = a /\ periods[len].amountPaid \in Nat
        BY <2>1, <3>2
      <4> QED BY <4>1
    <3>4. len * a = (len - 1) * a + a /\ (len - 1) * a \in Nat
      <4>1. len \in Nat \ {0} /\ a \in Nat
        BY <2>1, <3>1
      <4> HIDE DEF len, a
      <4> QED BY <4>1
    <3> DEFINE q == (len - 1) * a
    <3> HIDE DEF q
    <3>5. Received - q >= a
      <4>1. (IF AtLeastZero(Received - q) < a THEN AtLeastZero(Received - q) ELSE a) = a
        BY <3>3 DEF Level, q
      <4> QED BY <2>1, <3>4, <4>1 DEF AtLeastZero, q
    <3>6. len * a = q + a /\ q \in Nat
      BY <3>4 DEF q
    <3> QED BY <2>1, <3>5, <3>6
  <2>6. ASSUME NEW x \in payments
        PROVE  AppliedOf(x) <= x.amount /\ (AppliedOf(x) < x.amount => Outstanding = 0)
    <3>1. AppliedOf(x) = AppliedIn(periods, x)
      BY DEF AppliedOf, Slices, AppliedIn, SlicesIn
    <3>2. ShownInv(x) /\ x \in Taken
      BY <2>1 DEF LedgerInv, WaterInv
    <3>3. /\ AppliedIn(periods, x) <= x.amount
          /\ AppliedIn(periods, x) < x.amount => \A i \in DOMAIN periods : periods[i].balance = 0
      BY <3>2 DEF ShownInv
    <3> QED BY <2>5, <3>1, <3>3
  <2>7. TotalPaid = (IF Received < TotalDue THEN Received ELSE TotalDue)
    BY <2>2
  <2> QED BY <2>3, <2>4, <2>6, <2>7 DEF LedgerIsWaterfall
<1> QED BY <1>1, LedgerInvHolds, PTL

-----------------------------------------------------------------------------
(* What the reports say of it.                                             *)

\* A set of places that has, with a place, all the earlier ones is an initial part.
LEMMA InitialPart ==
    ASSUME NEW len \in Nat, NEW S \in SUBSET (1..len),
           \A i, j \in 1..len : i < j /\ j \in S => i \in S
    PROVE  \E n \in 0..len : S = 1..n
<1> DEFINE P == {m \in 0..len : \E n \in 0..m : S \cap (1..m) = 1..n}
<1>1. 0 \in P
  <2>1. S \cap (1..0) = 1..0
    OBVIOUS
  <2> QED BY <2>1
<1>2. ASSUME NEW m \in 0..(len - 1), m \in P PROVE m + 1 \in P
  <2>1. PICK n \in 0..m : S \cap (1..m) = 1..n
    BY <1>2
  <2>2. m + 1 \in 1..len /\ 1..(m + 1) = (1..m) \cup {m + 1}
    BY <1>2
  <2>3. CASE m + 1 \in S
    <3>1. S \cap (1..(m + 1)) = 1..(m + 1)
      BY <2>2, <2>3
    <3> QED BY <2>2, <3>1
  <2>4. CASE m + 1 \notin S
    <3>1. S \cap (1..(m + 1)) = 1..n
      BY <2>1, <2>2, <2>4
    <3> QED BY <2>2, <3>1
  <2> QED BY <2>3, <2>4
<1>3. len \in P
  <2> HIDE DEF P
  <2>1. 0..len \subseteq P
    BY <1>1, <1>2, IntervalInduction
  <2> QED BY <2>1
<1> QED BY <1>3

\* What is due before a date that is not past is not past.
LEMMA DueBefore ==
    ASSUME NEW c \in Dates, NEW d \in Dates, NEW today \in Dates, Before(c, d), NotAfter(d, today)
    PROVE  NotAfter(c, today)
<1>1. c.month \in Nat /\ c.day \in Nat /\ d.month \in Nat /\ d.day \in Nat
      /\ today.month \in Nat /\ today.day \in Nat
  BY DEF Dates
<1> QED BY <1>1 DEF Before, NotAfter

\* A month holds the due dates whose month it is.
LEMMA InMonth ==
    ASSUME NEW d \in Dates, NEW month \in Nat
    PROVE  NotAfter(MonthStart(month), d) /\ NotAfter(d, MonthEnd(month)) <=> d.month = month
<1>1. d.month \in Nat /\ d.day \in 1..31 /\ d.day <= DaysIn(d.month)
  BY DEF Dates
<1>2. DaysIn(month) \in 28..31
  BY MonthLength
<1> HIDE DEF DaysIn
<1> QED BY <1>1, <1>2 DEF NotAfter, Before, MonthStart, MonthEnd

\* For every lease, every table of payments, every day and every month asked for: the
\* arrears report owes what the ledger's due periods are short of, and each period of the
\* ledger is on the rent roll of one month, its own.
THEOREM ReportsAlwaysMatchLedger == Spec => []ReportsMatchLedger
<1>1. LedgerInv => ReportsMatchLedger
  <2> SUFFICES ASSUME LedgerInv, pc = "done" PROVE ReportsMatchLedger
    BY DEF ReportsMatchLedger
  <2> DEFINE a == lease.amount
             len == Len(periods)
  <2>1. /\ a \in Nat \ {0} /\ len \in Nat /\ DOMAIN periods = 1..len
        /\ \A i \in DOMAIN periods :
              periods[i] \in Period /\ periods[i].amountDue \in Nat \ {0}
    BY PeriodFacts
  <2>2. \A i \in DOMAIN periods : periods[i].dueDate \in Dates
    BY <2>1 DEF Period
  <2>3. ASSUME NEW asOf \in AsOfDates, PaymentsUntil(asOf) = payments
        PROVE  ArrearsOutstanding(asOf) = SumFunctionOnSet(Column("balance"), PeriodsDue(asOf))
    <3>1. asOf \in Dates
      BY ReportsAssumption
    <3>2. ASSUME NEW i \in 1..len, NEW j \in 1..len, i < j, j \in PeriodsDue(asOf)
          PROVE  i \in PeriodsDue(asOf)
      <4>1. Before(periods[i].dueDate, periods[j].dueDate) /\ NotAfter(periods[j].dueDate, asOf)
        BY <2>1, <3>2 DEF LedgerInv, ScheduleInv, ScheduleWithinTerm, PeriodsDue
      <4>2. periods[i].dueDate \in Dates /\ periods[j].dueDate \in Dates
        BY <2>1, <2>2
      <4>3. NotAfter(periods[i].dueDate, asOf)
        BY <3>1, <4>1, <4>2, DueBefore
      <4> QED BY <2>1, <4>3 DEF PeriodsDue
    <3>3. PeriodsDue(asOf) \in SUBSET (1..len)
      BY <2>1 DEF PeriodsDue
    <3>4. PICK n \in 0..len : PeriodsDue(asOf) = 1..n
      <4> DEFINE S == PeriodsDue(asOf)
      <4>1. S \in SUBSET (1..len) /\ \A i, j \in 1..len : i < j /\ j \in S => i \in S
        BY <3>2, <3>3
      <4> HIDE DEF S, len
      <4>2. len \in Nat
        BY <2>1
      <4>3. \E n \in 0..len : S = 1..n
        BY <4>1, <4>2, InitialPart
      <4> QED BY <4>3 DEF S
    <3>5. /\ n * a \in Nat
          /\ SumFunctionOnSet(Column("amountDue"), 1..n) = n * a
          /\ SumFunctionOnSet(Column("balance"), 1..n) = IF Received < n * a THEN n * a - Received ELSE 0
      BY OldestPeriods
    <3>6. SumFunctionOnSet(Amounts, PaymentsUntil(asOf)) = Received /\ Received \in Nat
      BY <2>3, AllPoured DEF Received
    <3>7. ArrearsOutstanding(asOf) = AtLeastZero(n * a - Received)
      BY <3>4, <3>5, <3>6 DEF ArrearsOutstanding
    <3> DEFINE q == n * a
    <3>8. /\ q \in Nat /\ ArrearsOutstanding(asOf) = AtLeastZero(q - Received)
          /\ SumFunctionOnSet(Column("balance"), 1..n) = IF Received < q THEN q - Received ELSE 0
      BY <3>5, <3>7
    <3> HIDE DEF q
    <3> QED BY <3>4, <3>6, <3>8 DEF AtLeastZero
  <2>4. ASSUME NEW i \in DOMAIN periods, periods[i].dueDate.month \in Months
        PROVE  {m \in Months : i \in MonthPeriods(m)} = {periods[i].dueDate.month}
    <3>1. \A m \in Months : i \in MonthPeriods(m) <=> periods[i].dueDate.month = m
      BY <2>2, ReportsAssumption, InMonth DEF MonthPeriods
    <3> QED BY <2>4, <3>1
  <2>5. ASSUME NEW m \in Months PROVE RentRoll(m).listed <=> RentRoll(m).due > 0
    <3> DEFINE S == MonthPeriods(m)
               f == Column("amountDue")
    <3>1. (RentRoll(m).listed <=> S # {}) /\ RentRoll(m).due = SumFunctionOnSet(f, S)
      BY DEF RentRoll
    <3>2. S \subseteq 1..len /\ IsFiniteSet(S)
      <4>1. S \subseteq 1..len
        BY <2>1 DEF MonthPeriods
      <4>2. IsFiniteSet(1..len)
        BY <2>1, FS_Interval
      <4> HIDE DEF S, len
      <4> QED BY <4>1, <4>2, FS_Subset
    <3>3. \A i \in S : f[i] \in Nat \ {0}
      BY <2>1, <3>2 DEF Column
    <3> HIDE DEF S, f
    <3>4. CASE S = {}
      <4>1. SumFunctionOnSet(f, S) = 0
        BY <3>4, SumOfNone
      <4> QED BY <3>1, <3>4, <4>1
    <3>5. CASE S # {}
      <4>1. /\ SumFunctionOnSet(f, S) \in Nat
            /\ \A i \in S : f[i] <= SumFunctionOnSet(f, S)
        BY <3>2, <3>3, SumOfNaturals
      <4>2. PICK i \in S : TRUE
        BY <3>5
      <4>3. SumFunctionOnSet(f, S) > 0
        BY <3>3, <4>1, <4>2
      <4> QED BY <3>1, <3>5, <4>3
    <3> QED BY <3>4, <3>5
  <2> QED BY <2>3, <2>4, <2>5 DEF ReportsMatchLedger
<1> QED BY <1>1, LedgerInvHolds, PTL

-----------------------------------------------------------------------------
(* The forecasts.  Their loops step through dates up to a bound, so they   *)
(* end, and the functions they are written as are given by their equations. *)

\* Dates by a number that grows with them.
Place(d) == 32 * d.month + d.day

LEMMA PlaceOrders ==
    \A c, d \in Dates : /\ Place(c) \in Nat
                        /\ Before(c, d) <=> Place(c) < Place(d)
<1> SUFFICES ASSUME NEW c \in Dates, NEW d \in Dates
             PROVE  Place(c) \in Nat /\ (Before(c, d) <=> Place(c) < Place(d))
  OBVIOUS
<1>1. c.month \in Nat /\ c.day \in 1..31 /\ d.month \in Nat /\ d.day \in 1..31
  BY DEF Dates
<1> DEFINE m == c.month
           n == d.month
           i == c.day
           j == d.day
<1>2. Place(c) = 32 * m + i /\ Place(d) = 32 * n + j /\ (Before(c, d) <=> m < n \/ (m = n /\ i < j))
  BY DEF Place, Before
<1>3. m \in Nat /\ i \in 1..31 /\ n \in Nat /\ j \in 1..31
  BY <1>1
<1> HIDE DEF m, n, i, j
<1> QED BY <1>2, <1>3

\* What the loops of computeNextDueDate return from each date.
LEMMA DueOnwardIs ==
    ASSUME NEW l \in Lease, NEW today \in Dates, NEW d \in Dates
    PROVE  DueOnward(l, today)[d]
             = IF Before(d, l.startDate) \/ Before(d, today)
                 THEN DueOnward(l, today)[AddByFrequency(d, l.paymentFrequency)]
                 ELSE IF Before(l.endDate, d) THEN NoDate ELSE d
<1> DEFINE V == Dates \cup {NoDate}
           val == [c \in Dates |-> Place(c)]
           nxt == [c \in Dates |-> AddByFrequency(c, l.paymentFrequency)]
           go == {c \in Dates : Before(c, l.startDate) \/ Before(c, today)}
           stop == [c \in Dates |-> IF Before(l.endDate, c) THEN NoDate ELSE c]
           step == [c \in Dates |-> [v \in V |-> v]]
           bound == Place(l.startDate) + Place(today)
           Body(f) == [c \in Dates |->
                         IF Before(c, l.startDate) \/ Before(c, today)
                           THEN f[AddByFrequency(c, l.paymentFrequency)]
                           ELSE IF Before(l.endDate, c) THEN NoDate ELSE c]
<1>1. l.startDate \in Dates /\ l.endDate \in Dates /\ l.paymentFrequency \in Frequencies
  BY DEF Lease
<1>2. \A c \in Dates : /\ AddByFrequency(c, l.paymentFrequency) \in Dates
                       /\ Before(c, AddByFrequency(c, l.paymentFrequency))
  BY <1>1, AddByFrequencyAdvances
<1>3. /\ val \in [Dates -> Nat] /\ bound \in Nat /\ nxt \in [Dates -> Dates]
      /\ stop \in [Dates -> V] /\ step \in [Dates -> [V -> V]]
  BY <1>1, <1>2, PlaceOrders
<1>4. \A c \in Dates : c \in go => val[c] < val[nxt[c]] /\ val[c] < bound
  BY <1>1, <1>2, PlaceOrders
<1>5. \E f \in [Dates -> V] : LoopResult(f, Dates, nxt, go, stop, step)
  <2> HIDE DEF V, val, nxt, go, stop, step, bound
  <2>1. LoopOver(Dates, V, val, bound, nxt, go, stop, step)
    BY <1>3, <1>4 DEF LoopOver
  <2> QED BY <2>1, LoopExists
<1>6. \E f : f = Body(f)
  <2>1. PICK f \in [Dates -> V] : \A c \in Dates : f[c] = IF c \in go THEN step[c][f[nxt[c]]] ELSE stop[c]
    BY <1>5 DEF LoopResult
  <2>2. ASSUME NEW c \in Dates PROVE f[c] = Body(f)[c]
    <3>1. nxt[c] \in Dates /\ f[nxt[c]] \in V /\ step[c][f[nxt[c]]] = f[nxt[c]]
      BY <1>3, <2>1
    <3> QED BY <2>1, <3>1
  <2>3. f = Body(f)
    <3>1. f = [c \in Dates |-> f[c]]
      BY <2>1
    <3> QED BY <2>2, <3>1
  <2> QED BY <2>3
<1>7. DueOnward(l, today) = CHOOSE f : f = Body(f)
  BY DEF DueOnward
<1>8. DueOnward(l, today) = Body(DueOnward(l, today))
  <2> HIDE DEF Body
  <2> QED BY <1>6, <1>7
<1> QED BY <1>8

\* What the loop that estimates periods counts from each date.
LEMMA PeriodsOnwardIs ==
    ASSUME NEW l \in Lease, NEW d \in Dates
    PROVE  PeriodsOnward(l)[d]
             = IF Before(l.endDate, d)
                 THEN 0
                 ELSE 1 + PeriodsOnward(l)[AddByFrequency(d, l.paymentFrequency)]
<1> DEFINE val == [c \in Dates |-> Place(c)]
           nxt == [c \in Dates |-> AddByFrequency(c, l.paymentFrequency)]
           go == {c \in Dates : ~Before(l.endDate, c)}
           stop == [c \in Dates |-> 0]
           step == [c \in Dates |-> [v \in Nat |-> 1 + v]]
           bound == Place(l.endDate) + 1
           Body(f) == [c \in Dates |->
                         IF Before(l.endDate, c)
                           THEN 0
                           ELSE 1 + f[AddByFrequency(c, l.paymentFrequency)]]
<1>1. l.endDate \in Dates /\ l.paymentFrequency \in Frequencies
  BY DEF Lease
<1>2. \A c \in Dates : /\ AddByFrequency(c, l.paymentFrequency) \in Dates
                       /\ Before(c, AddByFrequency(c, l.paymentFrequency))
  BY <1>1, AddByFrequencyAdvances
<1>3. /\ val \in [Dates -> Nat] /\ bound \in Nat /\ nxt \in [Dates -> Dates]
      /\ stop \in [Dates -> Nat] /\ step \in [Dates -> [Nat -> Nat]]
  BY <1>1, <1>2, PlaceOrders
<1>4. \A c \in Dates : c \in go => val[c] < val[nxt[c]] /\ val[c] < bound
  BY <1>1, <1>2, PlaceOrders
<1>5. \E f \in [Dates -> Nat] : LoopResult(f, Dates, nxt, go, stop, step)
  <2> HIDE DEF val, nxt, go, stop, step, bound
  <2>1. LoopOver(Dates, Nat, val, bound, nxt, go, stop, step)
    BY <1>3, <1>4 DEF LoopOver
  <2> QED BY <2>1, LoopExists
<1>6. \E f : f = Body(f)
  <2>1. PICK f \in [Dates -> Nat] : \A c \in Dates : f[c] = IF c \in go THEN step[c][f[nxt[c]]] ELSE stop[c]
    BY <1>5 DEF LoopResult
  <2>2. ASSUME NEW c \in Dates PROVE f[c] = Body(f)[c]
    <3>1. nxt[c] \in Dates /\ f[nxt[c]] \in Nat /\ step[c][f[nxt[c]]] = 1 + f[nxt[c]]
      BY <1>3, <2>1
    <3> QED BY <2>1, <3>1
  <2>3. f = Body(f)
    <3>1. f = [c \in Dates |-> f[c]]
      BY <2>1
    <3> QED BY <2>2, <3>1
  <2> QED BY <2>3
<1>7. PeriodsOnward(l) = CHOOSE f : f = Body(f)
  BY DEF PeriodsOnward
<1>8. PeriodsOnward(l) = Body(PeriodsOnward(l))
  <2> HIDE DEF Body
  <2> QED BY <1>6, <1>7
<1> QED BY <1>8

\* Past the end of the term there is no next due date.
LEMMA NoneBeyondEnd ==
    ASSUME NEW l \in Lease, NEW today \in Dates, NEW d \in Dates, Before(l.endDate, d)
    PROVE  DueOnward(l, today)[d] = NoDate
<1> DEFINE f == DueOnward(l, today)
           next(c) == AddByFrequency(c, l.paymentFrequency)
           bound == Place(l.startDate) + Place(today)
           P == {n \in Nat : \A c \in Dates : Before(l.endDate, c) /\ Place(c) + n >= bound => f[c] = NoDate}
<1>1. l.startDate \in Dates /\ l.endDate \in Dates /\ l.paymentFrequency \in Frequencies
  BY DEF Lease
<1>2. \A c \in Dates : next(c) \in Dates /\ Before(c, next(c))
  BY <1>1, AddByFrequencyAdvances
<1>3. \A c \in Dates : Before(l.endDate, c) =>
         f[c] = IF Before(c, l.startDate) \/ Before(c, today) THEN f[next(c)] ELSE NoDate
  BY DueOnwardIs
<1>4. bound \in Nat /\ \A c \in Dates : Place(c) >= bound => ~(Before(c, l.startDate) \/ Before(c, today))
  BY <1>1, PlaceOrders
<1>5. \A c \in Dates : /\ Place(c) \in Nat /\ Place(next(c)) \in Nat /\ Place(c) < Place(next(c))
                       /\ Before(l.endDate, c) => Before(l.endDate, next(c))
  BY <1>1, <1>2, PlaceOrders, BeforeTransitive
<1> HIDE DEF f, next, bound
<1>6. 0 \in P
  BY <1>3, <1>4, <1>5
<1>7. ASSUME NEW n \in P PROVE n + 1 \in P
  <2>1. ASSUME NEW c \in Dates, Before(l.endDate, c), Place(c) + (n + 1) >= bound PROVE f[c] = NoDate
    <3>1. Place(next(c)) + n >= bound
      BY <1>4, <1>5, <2>1
    <3>2. f[next(c)] = NoDate
      BY <1>2, <1>5, <1>7, <2>1, <3>1
    <3> QED BY <1>3, <2>1, <3>2
  <2> QED BY <1>7, <2>1
<1>8. P = Nat
  <2> HIDE DEF P
  <2>1. P \in SUBSET Nat
    BY DEF P
  <2> QED BY <1>6, <1>7, <2>1, SetInduction
<1>9. bound \in P /\ Place(d) + bound >= bound
  BY <1>4, <1>5, <1>8
<1> QED BY <1>9 DEF f

\* Where the schedule begins, as far as the request has come: the loops of the forecasts
\* come by there too; and when it is complete, the date it has reached is one step beyond
\* its last period and, short of the guard, beyond the term.
FirstDue == IF periods = <<>> THEN due ELSE periods[1].dueDate

ForecastInv ==
    pc \notin {"getLease", "notFound"} =>
       /\ \A today \in Dates : NextDueDate(lease, today) = DueOnward(lease, today)[FirstDue]
       /\ NotAfter(lease.startDate, lease.firstPaymentDate) => FirstDue = lease.firstPaymentDate
       /\ pc \notin {"firstDue", "schedule"} =>
             /\ Len(periods) <= SafetyGuard => Before(lease.endDate, due)
             /\ periods # <<>> =>
                  due = AddByFrequency(periods[Len(periods)].dueDate, lease.paymentFrequency)

LEMMA NextForecastInv == LedgerInv /\ ForecastInv /\ [Next]_vars => ForecastInv'
<1> SUFFICES ASSUME LedgerInv, ForecastInv, [Next]_vars PROVE ForecastInv'
  OBVIOUS
<1>1. /\ periods \in Seq(Period) /\ Len(periods) \in Nat /\ DOMAIN periods = 1..Len(periods)
      /\ due \in Dates
  BY DEF LedgerInv, TypeInv, TypeOK
<1>2. CASE GetLease
  <2>1. CASE lease = NoLease
    BY <1>2, <2>1 DEF GetLease, ForecastInv
  <2>2. CASE lease # NoLease
    <3>1. /\ pc' = "firstDue" /\ due' = lease.firstPaymentDate
          /\ UNCHANGED <<lease, periods>> /\ periods = <<>>
      BY <1>2, <2>2 DEF GetLease, LedgerInv, ScheduleInv
    <3>2. FirstDue' = lease.firstPaymentDate
      BY <3>1 DEF FirstDue
    <3> QED BY <3>1, <3>2 DEF ForecastInv, NextDueDate
  <2> QED BY <2>1, <2>2
<1>3. CASE FirstDueOnOrAfter
  <2>1. pc = "firstDue" /\ periods = <<>> /\ UNCHANGED <<lease, periods>> /\ lease \in Lease
    BY <1>3, LedgerAssumption DEF FirstDueOnOrAfter, LedgerInv, ScheduleInv, TypeInv
  <2>2. FirstDue = due /\ FirstDue' = due'
    BY <2>1 DEF FirstDue
  <2>3. /\ \A today \in Dates : NextDueDate(lease, today) = DueOnward(lease, today)[due]
        /\ NotAfter(lease.startDate, lease.firstPaymentDate) => due = lease.firstPaymentDate
    BY <2>1, <2>2 DEF ForecastInv
  <2>4. CASE Before(due, lease.startDate)
    <3>1. due' = AddByFrequency(due, lease.paymentFrequency) /\ pc' = "firstDue"
      BY <1>3, <2>4 DEF FirstDueOnOrAfter
    <3>2. \A today \in Dates : DueOnward(lease, today)[due] = DueOnward(lease, today)[due']
      BY <1>1, <2>1, <2>4, <3>1, DueOnwardIs
    <3>3. ~NotAfter(lease.startDate, lease.firstPaymentDate)
      BY <2>3, <2>4 DEF NotAfter
    <3>4. \A today \in Dates : NextDueDate(lease, today)' = DueOnward(lease, today)'[FirstDue']
      BY <2>1, <2>2, <2>3, <3>2 DEF NextDueDate, DueOnward
    <3> QED BY <2>1, <3>1, <3>3, <3>4 DEF ForecastInv
  <2>5. CASE ~Before(due, lease.startDate)
    <3>1. due' = due /\ pc' = "schedule"
      BY <1>3, <2>5 DEF FirstDueOnOrAfter
    <3> QED BY <2>1, <2>2, <2>3, <3>1 DEF ForecastInv, NextDueDate
  <2> QED BY <2>4, <2>5
<1>4. CASE BuildBillingSchedule
  <2>1. pc = "schedule" /\ lease' = lease
    BY <1>4 DEF BuildBillingSchedule
  <2>2. CASE InTerm /\ Len(periods) <= SafetyGuard
    <3>1. /\ periods' = Append(periods, NewPeriod) /\ NewPeriod.dueDate = due /\ pc' = "schedule"
      BY <1>4, <2>1, <2>2 DEF BuildBillingSchedule, NewPeriod
    <3>2. periods' # <<>> /\ periods'[1] = (IF periods = <<>> THEN NewPeriod ELSE periods[1])
      BY <1>1, <3>1
    <3>3. FirstDue' = FirstDue
      BY <3>1, <3>2 DEF FirstDue
    <3> QED BY <2>1, <3>1, <3>3 DEF ForecastInv, NextDueDate
  <2>3. CASE ~(InTerm /\ Len(periods) <= SafetyGuard)
    <3>1. pc' = "getPayments" /\ due' = due /\ periods' = periods
      BY <1>4, <2>3 DEF BuildBillingSchedule
    <3>2. Len(periods) <= SafetyGuard => Before(lease.endDate, due)
      BY <2>3 DEF InTerm, NotAfter
    <3>3. periods # <<>> => due = AddByFrequency(periods[Len(periods)].dueDate, lease.paymentFrequency)
      BY <2>1 DEF LedgerInv, ChainInv
    <3>4. FirstDue' = FirstDue
      BY <3>1 DEF FirstDue
    <3> QED BY <2>1, <3>1, <3>2, <3>3, <3>4 DEF ForecastInv, NextDueDate
  <2> QED BY <2>2, <2>3
<1>5. ASSUME pc \notin {"getLease", "notFound", "firstDue", "schedule"},
             UNCHANGED <<lease, due>>, Len(periods') = Len(periods), periods' = <<>> <=> periods = <<>>,
             \A i \in DOMAIN periods : periods'[i].dueDate = periods[i].dueDate
      PROVE  ForecastInv'
  <2>1. FirstDue' = FirstDue
    BY <1>1, <1>5 DEF FirstDue
  <2>2. periods # <<>> => periods'[Len(periods')].dueDate = periods[Len(periods)].dueDate
    BY <1>1, <1>5
  <2> QED BY <1>5, <2>1, <2>2 DEF ForecastInv, NextDueDate
<1>6. CASE GetPayments \/ TakePayment \/ EndPayment \/ SkipPaidPeriod \/ Respond
  <2>1. /\ pc \notin {"getLease", "notFound", "firstDue", "schedule"}
        /\ UNCHANGED <<lease, due, periods>>
    BY <1>6 DEF GetPayments, TakePayment, EndPayment, SkipPaidPeriod, Respond
  <2> QED BY <1>5, <2>1
<1>7. CASE ApplyToPeriod
  <2>1. pc = "period" /\ UNCHANGED <<lease, due>> /\ k \in DOMAIN periods
    BY <1>1, <1>7 DEF ApplyToPeriod, LedgerInv, TypeInv, TypeOK
  <2>2. /\ Len(periods') = Len(periods) /\ (periods' = <<>> <=> periods = <<>>)
        /\ \A i \in DOMAIN periods : periods'[i].dueDate = periods[i].dueDate
    BY <1>1, <1>7, <2>1 DEF ApplyToPeriod, PaidInto
  <2> QED BY <1>5, <2>1, <2>2
<1>8. CASE UNCHANGED vars
  BY <1>8 DEF vars, ForecastInv, FirstDue, NextDueDate
<1> QED BY <1>2, <1>3, <1>4, <1>6, <1>7, <1>8 DEF Next

LEMMA LeastIs ==
    ASSUME NEW S \in SUBSET Nat, S # {}
    PROVE  Min(S) \in S /\ \A y \in S : Min(S) <= y
<1>1. \E x \in S : \A y \in S : ~ (<<y, x>> \in OpToRel(<, Nat))
  BY WFMin, NatLessThanWellFounded
<1>2. PICK x \in S : \A y \in S : ~(y < x)
  BY <1>1 DEF OpToRel
<1>3. \A y \in S : x <= y
  BY <1>2
<1> QED BY <1>3 DEF Min

\* The periods of a finished schedule, as the forecasts' loops meet them.
LEMMA FinishedSchedule ==
    ASSUME LedgerInv, ForecastInv, pc = "done"
    PROVE  /\ lease \in Lease /\ Len(periods) \in Nat /\ DOMAIN periods = 1..Len(periods) /\ due \in Dates
           /\ \A i \in 1..Len(periods) :
                 /\ periods[i].dueDate \in Dates
                 /\ ~Before(periods[i].dueDate, lease.startDate)
                 /\ ~Before(lease.endDate, periods[i].dueDate)
                 /\ AddByFrequency(periods[i].dueDate, lease.paymentFrequency)
                      = IF i < Len(periods) THEN periods[i + 1].dueDate ELSE due
           /\ FirstDue = IF 0 < Len(periods) THEN periods[1].dueDate ELSE due
<1>1. /\ lease \in Lease /\ due \in Dates /\ periods \in Seq(Period)
  BY LedgerAssumption DEF LedgerInv, TypeInv, TypeOK
<1>2. ASSUME NEW i \in 1..Len(periods)
      PROVE  /\ periods[i].dueDate \in Dates
             /\ ~Before(periods[i].dueDate, lease.startDate)
             /\ ~Before(lease.endDate, periods[i].dueDate)
             /\ AddByFrequency(periods[i].dueDate, lease.paymentFrequency)
                  = IF i < Len(periods) THEN periods[i + 1].dueDate ELSE due
  <2>1. periods[i] \in Period /\ i \in DOMAIN periods
    BY <1>1
  <2>2. /\ ~Before(periods[i].dueDate, lease.startDate)
        /\ ~Before(lease.endDate, periods[i].dueDate)
    BY <2>1 DEF LedgerInv, ScheduleInv, ScheduleWithinTerm, NotAfter
  <2>3. CASE i < Len(periods)
    <3>1. i \in 1..(Len(periods) - 1)
      BY <1>1, <2>3
    <3> QED BY <2>1, <2>2, <2>3, <3>1 DEF Period, LedgerInv, ChainInv
  <2>4. CASE ~(i < Len(periods))
    <3>1. i = Len(periods) /\ periods # <<>>
      BY <1>1, <2>4
    <3> QED BY <2>1, <2>2, <2>4, <3>1 DEF Period, ForecastInv
  <2> QED BY <2>3, <2>4
<1>3. FirstDue = IF 0 < Len(periods) THEN periods[1].dueDate ELSE due
  BY <1>1 DEF FirstDue
<1> QED BY <1>1, <1>2, <1>3

\* For every lease whose schedule the guard does not cut off, and every day: the next due
\* date shown is the first of the schedule that is not past, and the estimate made when
\* the lease was created is the number of its periods.
THEOREM ForecastsAlwaysMatchSchedule == Spec => []ForecastsMatchSchedule
<1>1. LedgerInv /\ ForecastInv => ForecastsMatchSchedule
  <2> SUFFICES ASSUME LedgerInv, ForecastInv, pc = "done", Len(periods) <= SafetyGuard
               PROVE  ForecastsMatchSchedule
    BY DEF ForecastsMatchSchedule
  <2> DEFINE len == Len(periods)
             day(i) == periods[i].dueDate
             at(n) == IF n < len THEN day(n + 1) ELSE due
  <2>1. /\ lease \in Lease /\ len \in Nat /\ DOMAIN periods = 1..len /\ due \in Dates
        /\ \A i \in 1..len :
              /\ day(i) \in Dates
              /\ ~Before(day(i), lease.startDate) /\ ~Before(lease.endDate, day(i))
              /\ AddByFrequency(day(i), lease.paymentFrequency) = at(i)
        /\ FirstDue = at(0)
    BY FinishedSchedule
  <2>2. /\ Before(lease.endDate, due)
        /\ \A today \in Dates : NextDueDate(lease, today) = DueOnward(lease, today)[FirstDue]
        /\ NotAfter(lease.startDate, lease.firstPaymentDate) => FirstDue = lease.firstPaymentDate
    BY DEF ForecastInv
  <2> HIDE DEF len, day
  <2>3. ASSUME NEW today \in AsOfDates
        PROVE  LET coming == {i \in DOMAIN periods : NotAfter(today, day(i))}
               IN  NextDueDate(lease, today) = IF coming = {} THEN NoDate ELSE day(Min(coming))
    <3> DEFINE f == DueOnward(lease, today)
               coming == {i \in DOMAIN periods : NotAfter(today, day(i))}
               S == {n \in 0..len : (\A j \in 1..n : Before(day(j), today)) => f[FirstDue] = f[at(n)]}
    <3>1. today \in Dates
      BY ReportsAssumption
    <3>2. \A i \in 1..len : f[day(i)] = IF Before(day(i), today) THEN f[at(i)] ELSE day(i)
      BY <2>1, <3>1, DueOnwardIs
    <3>3. f[due] = NoDate
      BY <2>1, <2>2, <3>1, NoneBeyondEnd
    <3> HIDE DEF f
    <3>4. 0 \in S
      BY <2>1
    <3>5. ASSUME NEW n \in 0..(len - 1), n \in S PROVE n + 1 \in S
      <4>1. n + 1 \in 1..len /\ at(n) = day(n + 1) /\ n + 1 \in 0..len
        BY <2>1, <3>5
      <4>2. ASSUME \A j \in 1..(n + 1) : Before(day(j), today) PROVE f[FirstDue] = f[at(n + 1)]
        <5>1. Before(day(n + 1), today) /\ \A j \in 1..n : Before(day(j), today)
          BY <4>1, <4>2
        <5>2. f[FirstDue] = f[day(n + 1)]
          BY <3>5, <4>1, <5>1
        <5> HIDE DEF at
        <5> QED BY <3>2, <4>1, <5>1, <5>2
      <4> HIDE DEF at
      <4> QED BY <4>1, <4>2
    <3>6. 0..len \subseteq S
      <4> HIDE DEF S
      <4> QED BY <2>1, <3>4, <3>5, IntervalInduction
    <3>7. CASE coming = {}
      <4>1. \A j \in 1..len : Before(day(j), today)
        BY <2>1, <3>7 DEF NotAfter
      <4>2. f[FirstDue] = f[at(len)] /\ at(len) = due
        BY <2>1, <3>6, <4>1
      <4> QED BY <2>2, <3>1, <3>3, <3>7, <4>2 DEF f
    <3>8. CASE coming # {}
      <4>1. Min(coming) \in coming /\ \A y \in coming : Min(coming) <= y
        <5>1. coming \in SUBSET Nat
          BY <2>1
        <5> HIDE DEF coming
        <5> QED BY <3>8, <5>1, LeastIs
      <4> DEFINE least == Min(coming)
      <4>2. least \in 1..len /\ ~Before(day(least), today)
        BY <2>1, <4>1 DEF NotAfter
      <4>3. \A j \in 1..(least - 1) : Before(day(j), today)
        <5> SUFFICES ASSUME NEW j \in 1..(least - 1) PROVE Before(day(j), today)
          OBVIOUS
        <5>1. j \in DOMAIN periods /\ j < least
          <6> HIDE DEF least
          <6> QED BY <2>1, <4>2
        <5>2. j \notin coming
          <6>1. j \in coming => least <= j
            BY <4>1
          <6> HIDE DEF least, coming
          <6> QED BY <2>1, <4>2, <5>1, <6>1
        <5> QED BY <5>1, <5>2 DEF NotAfter
      <4> HIDE DEF least
      <4>4. least - 1 \in 0..len /\ at(least - 1) = day(least)
        BY <2>1, <4>2
      <4>5. f[FirstDue] = f[day(least)]
        BY <3>6, <4>3, <4>4
      <4>6. f[FirstDue] = day(least)
        BY <3>2, <4>2, <4>5
      <4> QED BY <2>2, <3>1, <3>8, <4>6 DEF f, least
    <3> QED BY <3>7, <3>8
  <2>4. ASSUME NotAfter(lease.startDate, lease.firstPaymentDate)
        PROVE  EstimatedPeriods(lease) = len
    <3> DEFINE g == PeriodsOnward(lease)
               S == {n \in 0..len : g[at(len - n)] = n}
    <3>1. \A i \in 1..len : g[day(i)] = 1 + g[at(i)]
      BY <2>1, PeriodsOnwardIs
    <3>2. g[due] = 0
      BY <2>1, <2>2, PeriodsOnwardIs
    <3> HIDE DEF g
    <3>3. 0 \in S
      BY <2>1, <3>2
    <3>4. ASSUME NEW n \in 0..(len - 1), n \in S PROVE n + 1 \in S
      <4>1. len - n \in 1..len /\ at(len - (n + 1)) = day(len - n) /\ n + 1 \in 0..len
        BY <2>1, <3>4
      <4>2. g[at(len - n)] = n
        BY <3>4
      <4> HIDE DEF at
      <4>3. g[at(len - (n + 1))] = n + 1
        BY <3>1, <4>1, <4>2
      <4> QED BY <4>1, <4>3
    <3>5. 0..len \subseteq S
      <4> HIDE DEF S
      <4> QED BY <2>1, <3>3, <3>4, IntervalInduction
    <3>6. g[at(0)] = len
      BY <2>1, <3>5
    <3> QED BY <2>1, <2>2, <2>4, <3>6 DEF EstimatedPeriods, g
  <2> QED BY <2>3, <2>4 DEF ForecastsMatchSchedule, len, day
<1>2. Init => ForecastInv
  BY DEF Init, ForecastInv
<1> QED BY <1>1, <1>2, LedgerInvHolds, NextForecastInv, PTL DEF Spec

=============================================================================
