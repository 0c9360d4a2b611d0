---------------------------- MODULE LeaseLifecycle ----------------------------
(***************************************************************************)
(* The requests of propertyLeaseAgreementService.ts that write lease rows  *)
(* (create, update, extend, terminate, delete) and those that read them    *)
(* through Redis (details, leases of the tenant, leases of the landlord),  *)
(* served by concurrent workers.  Every await of the code ends a step, and *)
(* what a worker read before it is kept and used after it.                 *)
(*                                                                         *)
(* The organization of a lease is always the request's: the cross-check    *)
(* with the property's organization throws inside a try whose catch drops  *)
(* the error.  Columns no step looks at (amount, signatures) are left out. *)
(***************************************************************************)
EXTENDS LeaseRows

CONSTANTS
    Workers,          \* requests served at a time
    Nothing,          \* null: no such row, no such key, nothing read
    Unsigned, Gone,   \* see LeaseLife
    ReadKinds,        \* the cached reads considered: details, tenant, landlord
    MaxWrites         \* bound: write requests in a behaviour

ASSUME LifecycleAssumption ==
    /\ Nothing \notin Row /\ Unsigned \notin Row /\ Gone \notin Row
    /\ Unsigned # Gone
    /\ MaxWrites \in Nat

VARIABLES
    rows,      \* the lease_agreements table
    deleted,   \* ids given out and deleted; a uuid is never given out twice
    cache,     \* Redis, by key
    at,        \* where each worker stands
    job,       \* the request it serves
    seen,      \* the value it read or stored last
    ends,      \* history: the end dates each lease has had
    writes     \* write requests begun

vars == <<rows, deleted, cache, at, job, seen, ends, writes>>

-----------------------------------------------------------------------------
(* Keys and requests.                                                      *)

\* The writers set and delete leaseAgreement:<id> ("entity") and nothing else;
\* the readers read and set the others.
EntityKey(l) == [kind |-> "entity", id |-> l]
ReadKeys == [kind : ReadKinds \cap {"details"}, id : Leases]
              \cup [kind : ReadKinds \cap {"tenant", "landlord"}]
Keys == ReadKeys \cup {EntityKey(l) : l \in Leases}

List(test(_)) ==
    {[id |-> l, row |-> rows[l]] : l \in {m \in Leases : rows[m] # Nothing /\ test(rows[m])}}

\* What the database answers for a key.
View(key) ==
    CASE key.kind \in {"entity", "details"} -> rows[key.id]
      [] key.kind = "tenant"   -> List(LAMBDA r : r.status = "active")
      [] key.kind = "landlord" -> List(LAMBDA r : r.status \in {"pending", "active"})

\* Create requests are those that pass the validation of createLeaseAgreement.
WriteRequests ==
    [op : {"create"}, row : {r \in Row : r.startDate < r.endDate /\ r.termination = NoDate}]
      \cup [op : {"update"}, id : Leases, change : Changes]
      \cup [op : {"extend", "terminate"}, id : Leases, date : Days]
      \cup [op : {"delete"}, id : Leases]

ReadRequests == [op : {"read"}, key : ReadKeys]

FirstStep(op) ==
    CASE op = "create" -> "insert"
      [] op = "update" -> "write"
      [] op \in {"extend", "terminate"} -> "load"
      [] op = "delete" -> "remove"
      [] op = "read"   -> "lookup"

Steps == {"idle", "insert", "load", "write", "reload", "remove",
          "forget", "store", "lookup", "query"}

Init ==
    /\ rows = [l \in Leases |-> Nothing]
    /\ deleted = {}
    /\ cache = [key \in Keys |-> Nothing]
    /\ at = [w \in Workers |-> "idle"]
    /\ job = [w \in Workers |-> Nothing]
    /\ seen = [w \in Workers |-> Nothing]
    /\ ends = [l \in Leases |-> {}]
    /\ writes = 0

Go(w, step) == at' = [at EXCEPT ![w] = step]
See(w, value) == seen' = [seen EXCEPT ![w] = value]

\* The request is answered, with a result or with an error.
Answer(w) ==
    /\ Go(w, "idle")
    /\ job' = [job EXCEPT ![w] = Nothing]
    /\ See(w, Nothing)

Begin(w) ==
    /\ at[w] = "idle"
    /\ \E request \in WriteRequests \cup ReadRequests :
          /\ job' = [job EXCEPT ![w] = request]
          /\ Go(w, FirstStep(request.op))
          /\ IF request.op = "read"
               THEN UNCHANGED writes
               ELSE writes < MaxWrites /\ writes' = writes + 1
    /\ UNCHANGED <<rows, deleted, cache, seen, ends>>

-----------------------------------------------------------------------------
(* The database steps.                                                     *)

HasHad(l, end) == ends' = [ends EXCEPT ![l] = @ \cup {end}]

\* The unique index on unit, tenant and start date.
Free(l, start) ==
    \A m \in Leases \ {l} : rows[m] # Nothing => rows[m].startDate # start

\* createLeaseAgreement: the row is saved under a new uuid, or the index refuses it.
Insert(w) ==
    /\ at[w] = "insert"
    /\ LET row == job[w].row
       IN  \/ \E l \in Leases \ deleted :
                 /\ rows[l] = Nothing /\ Free(l, row.startDate)
                 /\ rows' = [rows EXCEPT ![l] = row] /\ HasHad(l, row.endDate)
                 /\ See(w, [id |-> l, row |-> row])
                 /\ Go(w, "store") /\ UNCHANGED job
           \/ /\ \E l \in Leases : rows[l] # Nothing /\ rows[l].startDate = row.startDate
              /\ Answer(w) /\ UNCHANGED <<rows, ends>>
    /\ UNCHANGED <<deleted, cache, writes>>

\* getById of extend and terminate, and the check that follows it.
Load(w) ==
    /\ at[w] = "load"
    /\ LET row == rows[job[w].id]
       IN  IF row = Nothing \/ (job[w].op = "extend" /\ ~(job[w].date > row.endDate))
             THEN Answer(w)
             ELSE See(w, row) /\ Go(w, "write") /\ UNCHANGED job
    /\ UNCHANGED <<rows, deleted, cache, ends, writes>>

\* The columns a request writes: with them, for terminate, what it read before.
Change(w) ==
    CASE job[w].op = "update" -> job[w].change
      [] job[w].op = "extend" -> [endDate |-> job[w].date]
      [] job[w].op = "terminate" ->
            [status      |-> "terminated",
             endDate     |-> IF job[w].date < seen[w].endDate THEN job[w].date ELSE seen[w].endDate,
             termination |-> job[w].date]

\* A variant for mutation: the row read before is saved with its change, as
\* repository.save would.
SaveWholeRow(l, w) ==
    IF rows[l] = Nothing /\ seen[w] = Nothing THEN rows ELSE
      [rows EXCEPT ![l] = With(IF seen[w] = Nothing THEN rows[l] ELSE seen[w], Change(w))]

\* repository.update: one UPDATE of the columns of the change; no row, no change.
Updated(l, w) ==
    IF rows[l] = Nothing THEN rows ELSE [rows EXCEPT ![l] = With(rows[l], Change(w))]

WriteColumns(w) ==
    /\ at[w] = "write"
    /\ LET l == job[w].id
       IN  IF Updated(l, w)[l] # Nothing /\ ~Free(l, Updated(l, w)[l].startDate)
             THEN Answer(w) /\ UNCHANGED <<rows, ends>>
             ELSE /\ rows' = Updated(l, w)
                  /\ IF rows'[l] = Nothing THEN UNCHANGED ends ELSE HasHad(l, rows'[l].endDate)
                  /\ Go(w, "reload") /\ UNCHANGED <<job, seen>>
    /\ UNCHANGED <<deleted, cache, writes>>

\* A variant for mutation: that the row is gone is not noticed.
ReloadUnchecked(w) ==
    /\ at[w] = "reload"
    /\ IF job[w].op # "update"
         THEN Answer(w)
         ELSE /\ See(w, [id |-> job[w].id, row |-> rows[job[w].id]])
              /\ Go(w, "forget") /\ UNCHANGED job
    /\ UNCHANGED <<rows, deleted, cache, ends, writes>>

\* The getById that ends update, extend and terminate; only update then touches
\* the cache.
Reload(w) ==
    /\ at[w] = "reload"
    /\ LET row == rows[job[w].id]
       IN  IF row = Nothing \/ job[w].op # "update"
             THEN Answer(w)
             ELSE See(w, [id |-> job[w].id, row |-> row]) /\ Go(w, "forget") /\ UNCHANGED job
    /\ UNCHANGED <<rows, deleted, cache, ends, writes>>

Remove(w) ==
    /\ at[w] = "remove"
    /\ LET l == job[w].id
       IN  /\ rows' = [rows EXCEPT ![l] = Nothing]
           /\ deleted' = IF rows[l] = Nothing THEN deleted ELSE deleted \cup {l}
    /\ Go(w, "forget")
    /\ UNCHANGED <<cache, job, seen, ends, writes>>

-----------------------------------------------------------------------------
(* The cache steps.  ensureConnected is outside the try of RedisCache and  *)
(* may throw; an error of the command itself is logged and dropped.        *)

\* invalidateLeaseCache.
Forget(w) ==
    /\ at[w] = "forget"
    /\ \/ Answer(w) /\ UNCHANGED cache
       \/ /\ \/ cache' = [cache EXCEPT ![EntityKey(job[w].id)] = Nothing]
             \/ UNCHANGED cache
          /\ IF job[w].op = "update" THEN Go(w, "store") /\ UNCHANGED <<job, seen>>
                                     ELSE Answer(w)
    /\ UNCHANGED <<rows, deleted, ends, writes>>

\* cacheLease of create and update; setToCache of the readers.  An empty list is
\* truthy and stored too.
Store(w) ==
    /\ at[w] = "store"
    /\ \/ cache' = IF job[w].op = "read"
                     THEN [cache EXCEPT ![job[w].key] = seen[w]]
                     ELSE [cache EXCEPT ![EntityKey(seen[w].id)] = seen[w].row]
       \/ UNCHANGED cache
    /\ Answer(w)
    /\ UNCHANGED <<rows, deleted, ends, writes>>

Lookup(w) ==
    /\ at[w] = "lookup"
    /\ \/ Go(w, "query") /\ UNCHANGED <<job, seen>>   \* a miss, or GET failed: null
       \/ Answer(w)                                  \* a hit, or ensureConnected threw
    /\ UNCHANGED <<rows, deleted, cache, ends, writes>>

Query(w) ==
    /\ at[w] = "query"
    /\ LET value == View(job[w].key)
       IN  IF value = Nothing
             THEN Answer(w)
             ELSE See(w, value) /\ Go(w, "store") /\ UNCHANGED job
    /\ UNCHANGED <<rows, deleted, cache, ends, writes>>

\* A database error, or the process dies: the request ends where it stands.
Abandon(w) ==
    /\ at[w] # "idle"
    /\ Answer(w)
    /\ UNCHANGED <<rows, deleted, cache, ends, writes>>

\* Every key is set with EX cacheTTL.
Expire(key) ==
    /\ cache[key] # Nothing
    /\ cache' = [cache EXCEPT ![key] = Nothing]
    /\ UNCHANGED <<rows, deleted, at, job, seen, ends, writes>>

Serve(w) ==
    \/ Insert(w) \/ Load(w) \/ WriteColumns(w) \/ Reload(w) \/ Remove(w)
    \/ Forget(w) \/ Store(w) \/ Lookup(w) \/ Query(w)

Next ==
    \/ \E w \in Workers : Begin(w) \/ Serve(w) \/ Abandon(w)
    \/ \E key \in Keys : Expire(key)

\* A request being served goes on (the event loop, timeouts of the drivers);
\* Redis expires what is stored.
Fairness ==
    /\ \A w \in Workers : WF_vars(Serve(w))
    /\ \A key \in Keys : WF_vars(Expire(key))

Spec == Init /\ [][Next]_vars /\ Fairness

-----------------------------------------------------------------------------
(* Properties.                                                             *)

Values(key) ==
    IF key.kind \in {"entity", "details"} THEN Row ELSE SUBSET [id : Leases, row : Row]

TypeOK ==
    /\ rows \in [Leases -> Row \cup {Nothing}]
    /\ deleted \subseteq Leases
    /\ DOMAIN cache = Keys
    /\ \A key \in Keys : cache[key] = Nothing \/ cache[key] \in Values(key)
    /\ at \in [Workers -> Steps]
    /\ \A w \in Workers :
          IF at[w] = "idle" THEN job[w] = Nothing
                            ELSE job[w] \in WriteRequests \cup ReadRequests
    /\ \A w \in Workers : at[w] = "store" =>
          IF job[w].op = "read" THEN seen[w] \in Values(job[w].key)
                                ELSE seen[w] \in [id : Leases, row : Row]
    /\ ends \in [Leases -> SUBSET Days]
    /\ writes \in 0..MaxWrites

\* The life of each lease so far.
LifeOf == [l \in Leases |-> IF rows[l] # Nothing THEN rows[l]
                            ELSE IF l \in deleted THEN Gone ELSE Unsigned]

Life == INSTANCE LeaseLife WITH life <- LifeOf

\* Whatever writers race and wherever one fails or dies, each lease lives as
\* LeaseLife says: one live lease per unit, tenant and start date; every write
\* changes the columns of one request and leaves what others wrote to the other
\* columns; a termination sets status, end and record together; and a request that
\* read a lease before it was deleted cannot bring it back.  An end date is not
\* protected: of two requests that read the same row, the later write decides, so
\* an extension may overwrite the end a termination has just set, and a termination
\* that of an extension.  What holds is that each decides on an end date the lease
\* has really had: no extension is to a day before all of them, and no termination
\* makes up an end.
LeasesLive == Life!LifeSpec

\* "Enforces newEndDate to be after current endDate" (extendLease,
\* propertyLeaseAgreementService.ts:524): extending never moves an end date back.
ExtendOnlyLengthens ==
    [][\A w \in Workers :
          LET l == job[w].id
          IN  at[w] = "write" /\ at'[w] = "reload" /\ job[w].op = "extend"
                /\ rows[l] # Nothing
                => rows'[l].endDate > rows[l].endDate]_vars

=============================================================================
