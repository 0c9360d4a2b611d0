--------------------------- MODULE MCLeaseLifecycle ---------------------------
(* Values of the constants of LeaseLifecycle for model checking.           *)
EXTENDS LeaseLifecycle, TLC

\* Updates that take a lease out of the active ones or back, move its start
\* onto another one's, and replace its terms.
MCChanges == { [status |-> "active"], [startDate |-> 2], [termination |-> NoDate] }

Symmetry == Permutations(Leases) \cup Permutations(Workers)

=============================================================================
