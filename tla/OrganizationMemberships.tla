------------------------ MODULE OrganizationMemberships ------------------------
(***************************************************************************)
(* organizationUserService.ts: the membership of one user in one           *)
(* organization.  Requests of concurrent workers add, replace and remove   *)
(* roles in transactions, set the status, soft-delete and restore, and     *)
(* read the membership through Redis.                                      *)
(*                                                                         *)
(* Transactions run under READ COMMITTED, the default of PostgreSQL: each  *)
(* statement sees what is committed.  em.save(membership) is TypeORM's: it *)
(* reads the row again by its id, soft-deleted or not, and updates the     *)
(* columns in which the loaded object differs from it.  The UPDATE, the    *)
(* final read of a transaction and its commit are one step: the row is     *)
(* locked in between, and nobody else can see or change it.                *)
(***************************************************************************)
EXTENDS Naturals

CONSTANTS
    Ids,          \* uuids of memberships
    Roles,        \* the values of OrganizationUserRole in use
    Statuses,     \* the values of the status column in use
    NoStatus,     \* NULL, or a status the request does not give
    Workers,      \* requests served at a time
    Nothing,      \* null: no row, no cached value, nothing read
    MaxRequests   \* bound: writing requests in a behaviour

AnyStatus == Statuses \cup {NoStatus}
Row == [roles : SUBSET Roles, status : AnyStatus, deleted : BOOLEAN]

\* A membership in memory or in Redis; deletedAt is null in every row a query finds.
Membership == [id : Ids, roles : SUBSET Roles, status : AnyStatus]

ASSUME MembershipsAssumption ==
    /\ Nothing \notin Row /\ Nothing \notin Membership
    /\ MaxRequests \in Nat

VARIABLES
    rows,       \* the organization_users rows of the user and organization
    cache,      \* the value of organizationUser:<organization>-<user>
    at, job,    \* where each worker stands, and the request it serves
    seen,       \* the membership it holds
    dirty,      \* the columns em.save is about to update
    requests    \* writing requests begun

vars == <<rows, cache, at, job, seen, dirty, requests>>

\* What the validation of the request objects lets through.
Requests ==
    [op : {"add"}, roles : SUBSET Roles, status : AnyStatus]
      \cup [op : {"replace", "remove"}, roles : SUBSET Roles \ {{}}]
      \cup [op : {"status"}, status : Statuses]
      \cup [op : {"softDelete", "restore", "read"}]

Steps == {"idle", "find", "insert", "diff", "save", "update",
          "lookup", "query", "fill", "store", "forget"}

Init ==
    /\ rows = [id \in Ids |-> Nothing]
    /\ cache = Nothing
    /\ at = [w \in Workers |-> "idle"]
    /\ job = [w \in Workers |-> Nothing]
    /\ seen = [w \in Workers |-> Nothing]
    /\ dirty = [w \in Workers |-> {}]
    /\ requests = 0

\* Queries leave soft-deleted rows out (@DeleteDateColumn).
Live(table) == {id \in Ids : table[id] # Nothing /\ ~table[id].deleted}

Loaded(id) == [id |-> id, roles |-> rows[id].roles, status |-> rows[id].status]

Go(w, step) == at' = [at EXCEPT ![w] = step]
Hold(w, membership) == seen' = [seen EXCEPT ![w] = membership]

\* The request is answered, with a result or an error.
Answer(w) ==
    /\ Go(w, "idle")
    /\ job' = [job EXCEPT ![w] = Nothing]
    /\ Hold(w, Nothing)
    /\ dirty' = [dirty EXCEPT ![w] = {}]

Begin(w) ==
    /\ at[w] = "idle"
    /\ \E request \in Requests :
          /\ job' = [job EXCEPT ![w] = request]
          /\ IF request.op = "read"
               THEN Go(w, "lookup") /\ UNCHANGED requests
               ELSE /\ requests < MaxRequests /\ requests' = requests + 1
                    /\ Go(w, "find")
    /\ UNCHANGED <<rows, cache, seen, dirty>>

-----------------------------------------------------------------------------
(* The database.                                                           *)

\* A variant for mutation: roles overwrite, as they would if addUserToOrganization
\* did not merge.
EditedWithoutMerge(m, request) ==
    CASE request.op = "add" ->
            [m EXCEPT !.roles  = IF request.roles = {} THEN @ ELSE request.roles,
                      !.status = IF request.status = NoStatus THEN @ ELSE request.status]
      [] request.op = "replace" -> [m EXCEPT !.roles = request.roles]
      [] request.op = "remove"  -> [m EXCEPT !.roles = @ \ request.roles]

\* The object with the changes of the request, before it is saved.
Edited(m, request) ==
    CASE request.op = "add" ->
            [m EXCEPT !.roles  = @ \cup request.roles,
                      !.status = IF request.status = NoStatus THEN @ ELSE request.status]
      [] request.op = "replace" -> [m EXCEPT !.roles = request.roles]
      [] request.op = "remove"  -> [m EXCEPT !.roles = @ \ request.roles]

\* A variant for mutation: the membership is looked up in the cache.
FindInCache(w) ==
    /\ at[w] = "find"
    /\ IF cache = Nothing
         THEN IF job[w].op = "add"
                THEN Go(w, "insert") /\ UNCHANGED <<job, seen, dirty>>
                ELSE Answer(w)
         ELSE /\ IF job[w].op \in {"add", "replace", "remove"}
                   THEN Go(w, "diff") /\ Hold(w, Edited(cache, job[w]))
                   ELSE Go(w, "update") /\ Hold(w, cache)
              /\ UNCHANGED <<job, dirty>>
    /\ UNCHANGED <<rows, cache, requests>>

\* findOne by organization and user.  No unique index covers the pair and the
\* query has no order: any live row.
Find(w) ==
    /\ at[w] = "find"
    /\ \/ /\ Live(rows) = {}
          /\ IF job[w].op = "add"
               THEN Go(w, "insert") /\ UNCHANGED <<job, seen, dirty>>
               ELSE Answer(w)
       \/ \E id \in Live(rows) :
             /\ IF job[w].op \in {"add", "replace", "remove"}
                  THEN Go(w, "diff") /\ Hold(w, Edited(Loaded(id), job[w]))
                  ELSE Go(w, "update") /\ Hold(w, Loaded(id))
             /\ UNCHANGED <<job, dirty>>
    /\ UNCHANGED <<rows, cache, requests>>

\* A variant for mutation: the transaction of a new membership is not committed.
InsertUncommitted(w) ==
    /\ at[w] = "insert"
    /\ \E id \in Ids :
          /\ rows[id] = Nothing
          /\ Hold(w, [id |-> id, roles |-> job[w].roles, status |-> job[w].status])
    /\ Go(w, "store")
    /\ UNCHANGED <<rows, cache, job, dirty, requests>>

\* em.save of a new membership; roles is NOT NULL and has no default.
Insert(w) ==
    /\ at[w] = "insert"
    /\ LET new == job[w]
       IN  IF new.roles = {}
             THEN Answer(w) /\ UNCHANGED rows
             ELSE \E id \in Ids :
                    /\ rows[id] = Nothing
                    /\ rows' = [rows EXCEPT ![id] =
                          [roles |-> new.roles, status |-> new.status, deleted |-> FALSE]]
                    /\ Hold(w, [id |-> id, roles |-> new.roles, status |-> new.status])
                    /\ Go(w, "store") /\ UNCHANGED <<job, dirty>>
    /\ UNCHANGED <<cache, requests>>

\* em.save of a loaded membership, its SELECT.  Equal arrays of roles may or may
\* not count as changed: that is TypeORM's choice.
Diff(w) ==
    /\ at[w] = "diff"
    /\ LET row == rows[seen[w].id]
           differing == {c \in {"roles", "status"} : seen[w][c] # row[c]}
                          \cup (IF row.deleted THEN {"deleted"} ELSE {})
       IN  \E same \in {{}, {"roles"}} :
              dirty' = [dirty EXCEPT ![w] = differing \cup same]
    /\ Go(w, "save")
    /\ UNCHANGED <<rows, cache, job, seen, requests>>

\* The row with the columns the save updates; deletedAt is null in the object.
Saved(row, m, columns) ==
    [roles   |-> IF "roles" \in columns THEN m.roles ELSE row.roles,
     status  |-> IF "status" \in columns THEN m.status ELSE row.status,
     deleted |-> IF "deleted" \in columns THEN FALSE ELSE row.deleted]

\* em.save, its UPDATE; the read that follows it; commit.  The saved object stands
\* in for a row the read does not find.
Save(w) ==
    /\ at[w] = "save"
    /\ LET id  == seen[w].id
           row == Saved(rows[id], seen[w], dirty[w])
       IN  /\ rows' = [rows EXCEPT ![id] = row]
           /\ IF row.deleted
                THEN UNCHANGED seen
                ELSE Hold(w, [id |-> id, roles |-> row.roles, status |-> row.status])
    /\ Go(w, "store")
    /\ UNCHANGED <<cache, job, dirty, requests>>

\* updateStatus, softDelete and restore of the repository: one UPDATE by id.
Update(w) ==
    /\ at[w] = "update"
    /\ LET id == seen[w].id
       IN  CASE job[w].op = "status" ->
                  rows' = [rows EXCEPT ![id].status = job[w].status] /\ Go(w, "lookup")
             [] job[w].op = "softDelete" ->
                  rows' = [rows EXCEPT ![id].deleted = TRUE] /\ Go(w, "forget")
             [] job[w].op = "restore" ->
                  rows' = [rows EXCEPT ![id].deleted = FALSE] /\ Go(w, "lookup")
    /\ UNCHANGED <<cache, job, seen, dirty, requests>>

-----------------------------------------------------------------------------
(* The cache.  A Redis command that fails is logged and dropped.           *)

\* getOrganizationUserByOrgAndUserIds, for a reader and for refreshCache, which
\* stores what it gets, a hit included.
Lookup(w) ==
    /\ at[w] = "lookup"
    /\ \/ /\ cache # Nothing
          /\ IF job[w].op = "read"
               THEN Answer(w)
               ELSE Go(w, "store") /\ Hold(w, cache) /\ UNCHANGED <<job, dirty>>
       \/ Go(w, "query") /\ UNCHANGED <<job, seen, dirty>>   \* a miss, or GET failed
    /\ UNCHANGED <<rows, cache, requests>>

Query(w) ==
    /\ at[w] = "query"
    /\ IF Live(rows) = {}
         THEN Answer(w)
         ELSE /\ \E id \in Live(rows) : Hold(w, Loaded(id))
              /\ Go(w, "fill") /\ UNCHANGED <<job, dirty>>
    /\ UNCHANGED <<rows, cache, requests>>

Fill(w) ==
    /\ at[w] = "fill"
    /\ cache' \in {cache, seen[w]}
    /\ IF job[w].op = "read"
         THEN Answer(w)
         ELSE Go(w, "store") /\ UNCHANGED <<job, seen, dirty>>
    /\ UNCHANGED <<rows, requests>>

Store(w) ==
    /\ at[w] = "store"
    /\ cache' \in {cache, seen[w]}
    /\ Answer(w)
    /\ UNCHANGED <<rows, requests>>

Forget(w) ==
    /\ at[w] = "forget"
    /\ cache' \in {cache, Nothing}
    /\ Answer(w)
    /\ UNCHANGED <<rows, requests>>

\* A database error rolls the transaction back, no connection to Redis can be
\* made, or the process dies.
Abandon(w) ==
    /\ at[w] # "idle"
    /\ Answer(w)
    /\ UNCHANGED <<rows, cache, requests>>

\* Every key is set with EX 3600.
Expire ==
    /\ cache # Nothing
    /\ cache' = Nothing
    /\ UNCHANGED <<rows, at, job, seen, dirty, requests>>

Serve(w) ==
    \/ Find(w) \/ Insert(w) \/ Diff(w) \/ Save(w) \/ Update(w)
    \/ Lookup(w) \/ Query(w) \/ Fill(w) \/ Store(w) \/ Forget(w)

Next ==
    \/ \E w \in Workers : Begin(w) \/ Serve(w) \/ Abandon(w)
    \/ Expire

\* A request being served goes on; Redis expires what is stored.
Fairness == WF_vars(Expire) /\ \A w \in Workers : WF_vars(Serve(w))

Spec == Init /\ [][Next]_vars /\ Fairness

-----------------------------------------------------------------------------
(* Properties.                                                             *)

TypeOK ==
    /\ rows \in [Ids -> Row \cup {Nothing}]
    /\ cache \in Membership \cup {Nothing}
    /\ at \in [Workers -> Steps]
    /\ job \in [Workers -> Requests \cup {Nothing}]
    /\ seen \in [Workers -> Membership \cup {Nothing}]
    /\ \A w \in Workers :
          /\ at[w] # "idle" => job[w] \in Requests
          /\ at[w] \in {"diff", "save", "update", "fill", "store"} =>
                seen[w] \in Membership /\ rows[seen[w].id] # Nothing
    /\ dirty \in [Workers -> SUBSET {"roles", "status", "deleted"}]
    /\ requests \in 0..MaxRequests

=============================================================================
