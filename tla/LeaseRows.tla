------------------------------ MODULE LeaseRows ------------------------------
(***************************************************************************)
(* The rows of lease_agreements, for the leases of one unit and one tenant *)
(* (the unique index leaves one row per start date), with the columns that *)
(* some step of the lease code looks at.                                   *)
(***************************************************************************)
EXTENDS Integers

CONSTANTS
    Leases,    \* the uuids of leases
    Days,      \* the days that start, end and termination dates are taken from
    Statuses,  \* the values of LeaseStatus in use
    Changes,   \* what update requests may change: parts of rows
    NoDate     \* no termination recorded in terms

\* termination is the date of terms.termination.
Row == [startDate : Days, endDate : Days, status : Statuses,
        termination : Days \cup {NoDate}]

\* The row with the columns of change replaced.
With(row, change) ==
    [c \in DOMAIN row |-> IF c \in DOMAIN change THEN change[c] ELSE row[c]]

ASSUME RowsAssumption ==
    /\ Days \subseteq Nat
    /\ NoDate \notin Days
    /\ "terminated" \in Statuses
    /\ \A row \in Row, change \in Changes : With(row, change) \in Row

=============================================================================
