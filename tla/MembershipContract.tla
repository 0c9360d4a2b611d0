--------------------------- MODULE MembershipContract ---------------------------
(***************************************************************************)
(* What each membership request but restore promises when no other request *)
(* changes a row while it runs, whatever its reads, diffs, caches and      *)
(* failures.  A history variable keeps the rows a request began with until *)
(* another request changes them.                                           *)
(*                                                                         *)
(* restore "Restores a soft-deleted OrganizationUser"                      *)
(* (organizationUserRepository.ts:185) in words only: the lookup it begins *)
(* with leaves soft-deleted rows out, so it fails on every row it is for.  *)
(* It keeps no promise that could be stated here.                          *)
(***************************************************************************)
EXTENDS OrganizationMemberships

CONSTANT Disturbed

VARIABLE before   \* of each worker: the rows its request began with, or Disturbed

contractVars == <<rows, cache, at, job, seen, dirty, requests, before>>

\* Observing steps: the rows at the start of a request; another request's change.
Observe ==
    before' = [w \in Workers |->
                 CASE at'[w] = "idle" -> Disturbed
                   [] at[w] = "idle" /\ at'[w] # "idle" -> rows
                   [] rows' # rows /\ at'[w] = at[w] /\ at[w] # "idle" -> Disturbed
                   [] OTHER -> before[w]]

ContractInit == Init /\ before = [w \in Workers |-> Disturbed]

ContractNext == Next /\ Observe

ContractSpec == ContractInit /\ [][ContractNext]_contractVars /\ Fairness

-----------------------------------------------------------------------------

\* What each of these requests makes of the rows it found.
Created(request, old, new) ==
    /\ Live(old) = {} /\ request.roles # {}
    /\ \E id \in Ids :
          /\ old[id] = Nothing
          /\ new = [old EXCEPT ![id] =
                      [roles |-> request.roles, status |-> request.status, deleted |-> FALSE]]

Changed(old, new, change(_)) ==
    \E id \in Live(old) : new = [old EXCEPT ![id] = change(old[id])]

Promised(request, old, new) ==
    CASE request.op = "add" ->
            \/ Created(request, old, new)
            \/ Changed(old, new, LAMBDA row :
                  [row EXCEPT !.roles  = row.roles \cup request.roles,
                              !.status = IF request.status = NoStatus
                                           THEN row.status ELSE request.status])
      [] request.op = "replace" ->
            Changed(old, new, LAMBDA row : [row EXCEPT !.roles = request.roles])
      [] request.op = "remove" ->
            Changed(old, new, LAMBDA row : [row EXCEPT !.roles = row.roles \ request.roles])
      [] request.op = "status" ->
            Changed(old, new, LAMBDA row : [row EXCEPT !.status = request.status])
      [] request.op = "softDelete" ->
            Changed(old, new, LAMBDA row : [row EXCEPT !.deleted = TRUE])

\* A request that adds, replaces or removes roles, sets the status or soft-deletes,
\* and whose database work succeeds with nobody else changing the rows, has done to
\* exactly one live membership what it is called for: it creates one only when there
\* was none, merges, replaces or removes roles without touching the status, keeps
\* the status when none is given, and leaves the soft-deleted rows alone, whatever
\* old copy Redis holds meanwhile; and the membership it goes on to return and cache
\* is the row as saved.  Of requests that overlap, and of restore, it says nothing.
AloneAsPromised ==
    [][\A w \in Workers :
          /\ at[w] \in {"insert", "save", "update"} /\ job[w].op # "restore"
          /\ at'[w] \in {"store", "lookup", "forget"}
          /\ before[w] # Disturbed
          => /\ Promised(job[w], before[w], rows')
             /\ at'[w] = "store" => /\ seen'[w].id \in Live(rows')
                                    /\ seen'[w].roles = rows'[seen'[w].id].roles
                                    /\ seen'[w].status = rows'[seen'[w].id].status
      ]_contractVars

\* "OrganizationUser cache refreshed" (organizationUserService.ts:294): the
\* membership that updateStatus stores in the cache, when no other request
\* changed the rows, has the status it has just set.
RefreshStoresNewStatus ==
    [][\A w \in Workers :
          Store(w) /\ job[w].op = "status" /\ before[w] # Disturbed
            => seen[w].status = job[w].status]_contractVars

Several(table) == \E a, b \in Live(table) : a # b

\* Two live memberships of one user in one organization exist only if the request
\* that made the second one ran while another request changed the rows.
OneMembershipAlone ==
    [][\A w \in Workers :
          Several(rows') /\ ~Several(rows) /\ at'[w] # at[w]
            => before[w] = Disturbed]_contractVars

=============================================================================
