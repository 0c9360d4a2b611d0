--------------------------- MODULE BillingCalendar ---------------------------
(***************************************************************************)
(* Civil dates and the date arithmetic of the lease billing code           *)
(* (propertyLeaseAgreementService.ts): how one due date is stepped to the  *)
(* next one, with the roll-over rules of the JavaScript Date.              *)
(*                                                                         *)
(* A date is a record of a month counted from January of year 0 and a day  *)
(* of that month.  An instant (a payment's paidAt, which has a time of     *)
(* day) is counted in half days: 2 * Ordinal(d) is midnight of d, one more *)
(* is any later moment of d.  All times are in one time zone.              *)
(***************************************************************************)
EXTENDS Integers

Frequencies == {"weekly", "biweekly", "monthly", "quarterly", "yearly"}

\* The lengths of the months belong to the JavaScript runtime, not to src/.
IsLeap(year) == year % 4 = 0 /\ (year % 100 # 0 \/ year % 400 = 0)

DaysIn(month) ==
    CASE month % 12 = 1             -> IF IsLeap(month \div 12) THEN 29 ELSE 28
      [] month % 12 \in {3, 5, 8, 10} -> 30
      [] OTHER                      -> 31

Dates == {d \in [month : Nat, day : 1..31] : d.day <= DaysIn(d.month)}

Date(year, month, day) == [month |-> 12 * year + month - 1, day |-> day]

Before(a, b) == a.month < b.month \/ (a.month = b.month /\ a.day < b.day)
NotAfter(a, b) == ~Before(b, a)

\* The number of days before a month of a year that is not leap, and the day
\* number of a date (proleptic Gregorian), used for differences and instants.
DaysBefore == <<0, 31, 59, 90, 120, 151, 181, 212, 243, 273, 304, 334>>

Ordinal(d) ==
    LET year == d.month \div 12
        past == year - 1
    IN  365 * year + past \div 4 - past \div 100 + past \div 400
          + DaysBefore[(d.month % 12) + 1] + d.day
          + (IF d.month % 12 > 1 /\ IsLeap(year) THEN 1 ELSE 0)

Midnight(d) == 2 * Ordinal(d)

-----------------------------------------------------------------------------
(***************************************************************************)
(* addByFrequency.                                                         *)
(***************************************************************************)

\* A variant for mutation: every month has thirty days.
RolledAtThirty(month, day) ==
    IF day <= 30
      THEN [month |-> month, day |-> day]
      ELSE [month |-> month + 1, day |-> day - 30]

\* Date's setters normalise a day past the end of its month into the month
\* after: setMonth, setFullYear and setDate(getDate() + n) all come to this.
Rolled(month, day) ==
    IF day <= DaysIn(month)
      THEN [month |-> month, day |-> day]
      ELSE [month |-> month + 1, day |-> day - DaysIn(month)]

\* setMonth(getMonth() + n); when the day rolled over, setDate(min(day, 28))
\* in the month it rolled INTO.
AddMonths(d, n) ==
    LET moved == Rolled(d.month + n, d.day)
    IN  IF moved.day = d.day
          THEN moved
          ELSE [moved EXCEPT !.day = IF d.day < 28 THEN d.day ELSE 28]

AddByFrequency(d, freq) ==
    CASE freq = "weekly"    -> Rolled(d.month, d.day + 7)
      [] freq = "biweekly"  -> Rolled(d.month, d.day + 14)
      [] freq = "monthly"   -> AddMonths(d, 1)
      [] freq = "quarterly" -> AddMonths(d, 3)
      [] freq = "yearly"    -> Rolled(d.month + 12, d.day)

=============================================================================
