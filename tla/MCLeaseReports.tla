--------------------------- MODULE MCLeaseReports ---------------------------
(* Values of the constants of LeaseReports for model checking.             *)
EXTENDS LeaseReports

LeaseOver(start, end, first, freq) ==
    [startDate |-> start, endDate |-> end, firstPaymentDate |-> first,
     paymentFrequency |-> freq, amount |-> 2]

\* Month ends around a leap and a common February, a first payment before the
\* term, one after its end, and a lease terminated before it began.
MCLeases ==
    { LeaseOver(Date(2024, 1, 31), Date(2024, 3, 8), Date(2024, 1, 31), "weekly"),
      LeaseOver(Date(2023, 12, 20), Date(2024, 2, 5), Date(2023, 12, 20), "biweekly"),
      LeaseOver(Date(2024, 1, 31), Date(2024, 6, 15), Date(2024, 1, 31), "monthly"),
      LeaseOver(Date(2023, 1, 30), Date(2023, 5, 1), Date(2023, 1, 1), "monthly"),
      LeaseOver(Date(2024, 1, 15), Date(2024, 4, 15), Date(2024, 2, 29), "monthly"),
      LeaseOver(Date(2023, 8, 31), Date(2024, 9, 1), Date(2023, 8, 31), "quarterly"),
      LeaseOver(Date(2024, 2, 1), Date(2026, 3, 1), Date(2024, 2, 29), "yearly"),
      LeaseOver(Date(2024, 3, 1), Date(2024, 5, 1), Date(2024, 6, 1), "monthly"),
      LeaseOver(Date(2024, 3, 10), Date(2024, 3, 1), Date(2024, 3, 10), "weekly") }

MCPaymentIds == {"pay1", "pay2"}
MCPaidAt == {Midnight(Date(2024, 2, 1)), Midnight(Date(2024, 2, 29)) + 1, Midnight(Date(2024, 4, 30))}

MCPaymentTables ==
    LET rowsOf(id) == {[id |-> id, amount |-> a, paidAt |-> t] : a \in {1, 3}, t \in MCPaidAt}
    IN  {{}} \cup {{x} : x \in rowsOf("pay1")}
          \cup {{x, y} : x \in rowsOf("pay1"), y \in rowsOf("pay2")}
          \cup {{x, y, [id |-> "pay3", amount |-> 5, paidAt |-> Midnight(Date(2024, 2, 1))]} :
                  x \in rowsOf("pay1"), y \in rowsOf("pay2")}

MCAsOfDates == {Date(2023, 12, 31), Date(2024, 2, 1), Date(2024, 2, 29),
                Date(2024, 5, 1), Date(2024, 8, 31), Date(2026, 3, 1)}
MCMonths == {d.month : d \in MCAsOfDates} \cup {Date(2024, 3, 1).month, Date(2024, 1, 1).month}

=============================================================================
