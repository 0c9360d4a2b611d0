------------------------------ MODULE LeaseLife ------------------------------
(***************************************************************************)
(* What the lease operations promise about a lease, without requests,      *)
(* reads or caches: it is signed when no other lease holds its start date, *)
(* changes by one whole write at a time, and is gone for good once deleted.*)
(* An extension or a termination is decided on an end date the lease has   *)
(* had, which may have been overwritten since.                             *)
(***************************************************************************)
EXTENDS LeaseRows

CONSTANTS Unsigned, Gone

VARIABLES
    life,   \* of each lease: Unsigned, then its row, then Gone
    ends    \* the end dates it has had

Live(l) == life[l] \notin {Unsigned, Gone}

Free(l, start) == \A m \in Leases \ {l} : Live(m) => life[m].startDate # start

LifeInit ==
    /\ life = [l \in Leases |-> Unsigned]
    /\ ends = [l \in Leases |-> {}]

\* A lease takes a row, and with it an end date.
Take(l, row) ==
    /\ life' = [life EXCEPT ![l] = row]
    /\ ends' = [ends EXCEPT ![l] = @ \cup {row.endDate}]

Sign(l) ==
    /\ life[l] = Unsigned
    /\ \E row \in Row :
          /\ row.startDate < row.endDate /\ row.termination = NoDate
          /\ Free(l, row.startDate)
          /\ Take(l, row)

Write(l, change) == Take(l, With(life[l], change))

\* What an update request names; the start date stays unique.
Amend(l) ==
    /\ Live(l)
    /\ \E change \in Changes :
          Free(l, With(life[l], change).startDate) /\ Write(l, change)

\* The end date and nothing else; it is after an end date the lease has had.
Extend(l) ==
    /\ Live(l)
    /\ \E day \in Days, end \in ends[l] : day > end /\ Write(l, [endDate |-> day])

\* Status, end and record at once; the end is the termination or an end date the
\* lease has had, whichever is sooner.
Terminate(l) ==
    /\ Live(l)
    /\ \E day \in Days, end \in ends[l] :
          Write(l, [status      |-> "terminated",
                    endDate     |-> IF day < end THEN day ELSE end,
                    termination |-> day])

Bury(l) == Live(l) /\ life' = [life EXCEPT ![l] = Gone] /\ UNCHANGED ends

LifeNext == \E l \in Leases : Sign(l) \/ Amend(l) \/ Extend(l) \/ Terminate(l) \/ Bury(l)

LifeSpec == LifeInit /\ [][LifeNext]_<<life, ends>>

=============================================================================
