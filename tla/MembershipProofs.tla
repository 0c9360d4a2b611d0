--------------------------- MODULE MembershipProofs ---------------------------
(***************************************************************************)
(* For any number of memberships, roles, statuses and workers: the types   *)
(* of OrganizationMemberships and the promises of MembershipContract.      *)
(***************************************************************************)
EXTENDS MembershipContract, TLAPS

\* Which requests a worker may be serving at a step.
Fits(w) ==
    /\ at[w] = "find" => job[w].op # "read"
    /\ at[w] = "insert" => job[w].op = "add"
    /\ at[w] \in {"diff", "save"} => job[w].op \in {"add", "replace", "remove"}
    /\ at[w] = "update" => job[w].op \in {"status", "softDelete", "restore"}

\* TypeOK, and every cached membership has a row.
TypeInv ==
    /\ TypeOK
    /\ \A w \in Workers : Fits(w)
    /\ cache # Nothing => rows[cache.id] # Nothing

\* A worker serves one step; the others stay where they are.
Others(v) ==
    \A w \in Workers \ {v} :
       at'[w] = at[w] /\ job'[w] = job[w] /\ seen'[w] = seen[w] /\ dirty'[w] = dirty[w]

\* Rows once there stay, whatever their columns.
RowsStay ==
    /\ rows' \in [Ids -> Row \cup {Nothing}]
    /\ \A id \in Ids : rows[id] # Nothing => rows'[id] # Nothing

\* The fields of a request, by its operation.
LEMMA RequestFields ==
    ASSUME NEW r \in Requests
    PROVE  /\ r.op \in {"add", "replace", "remove", "status", "softDelete", "restore", "read"}
           /\ r.op = "add" => r.roles \in SUBSET Roles /\ r.status \in AnyStatus
           /\ r.op \in {"replace", "remove"} => r.roles \in SUBSET Roles
           /\ r.op = "status" => r.status \in Statuses
BY DEF Requests

\* Loading a row and editing the object keep their types.
LEMMA LoadedIsMembership ==
    ASSUME rows \in [Ids -> Row \cup {Nothing}], NEW id \in Live(rows)
    PROVE  Loaded(id) \in Membership /\ id \in Ids /\ rows[id] \in Row /\ ~rows[id].deleted
BY DEF Live, Loaded, Membership, Row

LEMMA EditedIsMembership ==
    ASSUME NEW m \in Membership, NEW r \in Requests, r.op \in {"add", "replace", "remove"}
    PROVE  Edited(m, r) \in Membership /\ Edited(m, r).id = m.id
<1>1. CASE r.op = "add"
  BY <1>1, RequestFields DEF Edited, Membership, AnyStatus
<1>2. CASE r.op = "replace"
  BY <1>2, RequestFields DEF Edited, Membership
<1>3. CASE r.op = "remove"
  BY <1>3, RequestFields DEF Edited, Membership
<1> QED BY <1>1, <1>2, <1>3

\* What is left to show of TypeInv after a step of one worker.
LEMMA OneWorkerMoves ==
    ASSUME TypeInv, NEW v \in Workers, Others(v), RowsStay,
           at' \in [Workers -> Steps],
           job' \in [Workers -> Requests \cup {Nothing}],
           seen' \in [Workers -> Membership \cup {Nothing}],
           dirty' \in [Workers -> SUBSET {"roles", "status", "deleted"}],
           requests' \in 0..MaxRequests,
           cache' = Nothing \/ (cache' \in Membership /\ rows'[cache'.id] # Nothing),
           at'[v] # "idle" => job'[v] \in Requests,
           at'[v] \in {"diff", "save", "update", "fill", "store"} =>
             seen'[v] \in Membership /\ rows'[seen'[v].id] # Nothing,
           Fits(v)'
    PROVE  TypeInv'
<1>1. \A w \in Workers : at'[w] # "idle" => job'[w] \in Requests
  BY DEF TypeInv, TypeOK, Others
<1>2. \A w \in Workers :
        at'[w] \in {"diff", "save", "update", "fill", "store"} =>
          seen'[w] \in Membership /\ rows'[seen'[w].id] # Nothing
  <2> TAKE w \in Workers
  <2>1. CASE w = v
    BY <2>1
  <2>2. CASE w # v
    BY <2>2 DEF TypeInv, TypeOK, Others, RowsStay, Membership
  <2> QED BY <2>1, <2>2
<1>3. \A w \in Workers : Fits(w)'
  <2> TAKE w \in Workers
  <2>1. CASE w = v
    BY <2>1
  <2>2. CASE w # v
    BY <2>2 DEF TypeInv, Others, Fits
  <2> QED BY <2>1, <2>2
<1> QED BY <1>1, <1>2, <1>3, MembershipsAssumption DEF TypeInv, TypeOK, RowsStay

-----------------------------------------------------------------------------
(* Types.                                                                  *)

\* The answer of a request, which leaves rows alone.
LEMMA AnswerKeepsTypes ==
    ASSUME TypeInv, NEW v \in Workers, Answer(v), UNCHANGED <<rows, requests>>,
           cache' = Nothing \/ (cache' \in Membership /\ rows[cache'.id] # Nothing)
    PROVE  TypeInv'
<1>1. Others(v) /\ RowsStay
  BY DEF TypeInv, TypeOK, Others, RowsStay, Answer, Go, Hold
<1>2. at'[v] = "idle" /\ at' \in [Workers -> Steps]
  BY DEF TypeInv, TypeOK, Answer, Go, Steps
<1>3. /\ job' \in [Workers -> Requests \cup {Nothing}]
      /\ seen' \in [Workers -> Membership \cup {Nothing}]
      /\ dirty' \in [Workers -> SUBSET {"roles", "status", "deleted"}]
  BY DEF TypeInv, TypeOK, Answer, Hold
<1>4. requests' \in 0..MaxRequests /\ rows' = rows
  BY DEF TypeInv, TypeOK
<1>5. Fits(v)'
  BY <1>2 DEF Fits
<1> QED BY <1>1, <1>2, <1>3, <1>4, <1>5, OneWorkerMoves

LEMMA BeginKeepsTypes ==
    ASSUME TypeInv, NEW v \in Workers, Begin(v)
    PROVE  TypeInv'
<1> PICK request \in Requests :
      /\ job' = [job EXCEPT ![v] = request]
      /\ IF request.op = "read"
           THEN Go(v, "lookup") /\ UNCHANGED requests
           ELSE /\ requests < MaxRequests /\ requests' = requests + 1
                /\ Go(v, "find")
  BY DEF Begin
<1>1. Others(v) /\ RowsStay
  BY DEF TypeInv, TypeOK, Others, RowsStay, Begin, Go
<1>2. /\ at' \in [Workers -> Steps]
      /\ at'[v] = (IF request.op = "read" THEN "lookup" ELSE "find")
  BY DEF TypeInv, TypeOK, Go, Steps
<1>3. job'[v] = request /\ job' \in [Workers -> Requests \cup {Nothing}]
  BY DEF TypeInv, TypeOK
<1>4. /\ requests' \in 0..MaxRequests
      /\ rows' = rows /\ cache' = cache /\ seen' = seen /\ dirty' = dirty
  BY MembershipsAssumption DEF TypeInv, TypeOK, Begin
<1>5. Fits(v)'
  BY <1>2, <1>3 DEF Fits
<1> QED BY <1>1, <1>2, <1>3, <1>4, <1>5, OneWorkerMoves DEF TypeInv, TypeOK

LEMMA FindKeepsTypes ==
    ASSUME TypeInv, NEW v \in Workers, Find(v)
    PROVE  TypeInv'
<1>1. CASE Answer(v)
  BY <1>1, AnswerKeepsTypes DEF Find, TypeInv, TypeOK
<1>2. CASE job[v].op = "add" /\ Go(v, "insert") /\ UNCHANGED <<job, seen, dirty>>
  <2>1. Others(v) /\ RowsStay
    BY <1>2 DEF TypeInv, TypeOK, Others, RowsStay, Find, Go
  <2>2. at'[v] = "insert" /\ at' \in [Workers -> Steps]
    BY <1>2 DEF TypeInv, TypeOK, Go, Steps
  <2>3. Fits(v)' /\ job'[v] \in Requests
    BY <1>2, <2>2 DEF Fits, TypeInv, TypeOK, Find
  <2> QED BY <1>2, <2>1, <2>2, <2>3, OneWorkerMoves DEF Find, TypeInv, TypeOK
<1>3. ASSUME NEW id \in Live(rows),
             IF job[v].op \in {"add", "replace", "remove"}
               THEN Go(v, "diff") /\ Hold(v, Edited(Loaded(id), job[v]))
               ELSE Go(v, "update") /\ Hold(v, Loaded(id)),
             UNCHANGED <<job, dirty>>
      PROVE  TypeInv'
  <2>1. job[v] \in Requests /\ job[v].op # "read"
    BY DEF Find, TypeInv, TypeOK, Fits
  <2>2. Loaded(id) \in Membership /\ Loaded(id).id = id /\ rows[id] # Nothing
    BY LoadedIsMembership DEF TypeInv, TypeOK, Live, Loaded
  <2>3. seen'[v] \in Membership /\ seen'[v].id = id
    BY <1>3, <2>1, <2>2, EditedIsMembership DEF Hold, TypeInv, TypeOK
  <2>4. seen' \in [Workers -> Membership \cup {Nothing}]
    BY <1>3, <2>1, <2>2, EditedIsMembership DEF Hold, TypeInv, TypeOK
  <2>5. Others(v) /\ RowsStay
    BY <1>3 DEF TypeInv, TypeOK, Others, RowsStay, Find, Go, Hold
  <2>6. /\ at' \in [Workers -> Steps]
        /\ at'[v] = (IF job[v].op \in {"add", "replace", "remove"} THEN "diff" ELSE "update")
    BY <1>3 DEF TypeInv, TypeOK, Go, Steps
  <2>7. Fits(v)'
    BY <1>3, <2>1, <2>6, RequestFields DEF Fits
  <2>8. UNCHANGED <<rows, cache, requests>>
    BY DEF Find
  <2> QED BY <1>3, <2>1, <2>2, <2>3, <2>4, <2>5, <2>6, <2>7, <2>8, OneWorkerMoves DEF TypeInv, TypeOK
<1> QED BY <1>1, <1>2, <1>3 DEF Find

LEMMA InsertKeepsTypes ==
    ASSUME TypeInv, NEW v \in Workers, Insert(v)
    PROVE  TypeInv'
<1> DEFINE new == job[v]
<1>1. new \in Requests /\ new.roles \in SUBSET Roles /\ new.status \in AnyStatus
  BY RequestFields DEF Insert, TypeInv, TypeOK, Fits
<1>2. CASE new.roles = {}
  BY <1>2, AnswerKeepsTypes DEF Insert, TypeInv, TypeOK
<1>3. CASE new.roles # {}
  <2> DEFINE row == [roles |-> new.roles, status |-> new.status, deleted |-> FALSE]
  <2>1. PICK id \in Ids :
          /\ rows[id] = Nothing
          /\ rows' = [rows EXCEPT ![id] = row]
          /\ Hold(v, [id |-> id, roles |-> new.roles, status |-> new.status])
          /\ Go(v, "store") /\ UNCHANGED <<job, dirty>>
    BY <1>3 DEF Insert
  <2>0. row \in Row
    BY <1>1 DEF Row
  <2> HIDE DEF row
  <2>2. row \in Row /\ row # Nothing
    BY <2>0, MembershipsAssumption
  <2>3. RowsStay /\ rows'[id] # Nothing
    BY <2>1, <2>2 DEF RowsStay, TypeInv, TypeOK
  <2>4. [id |-> id, roles |-> new.roles, status |-> new.status] \in Membership
    BY <1>1 DEF Membership
  <2>5. /\ seen'[v] \in Membership /\ seen'[v].id = id
        /\ seen' \in [Workers -> Membership \cup {Nothing}]
    BY <2>1, <2>4 DEF Hold, TypeInv, TypeOK
  <2>6. at'[v] = "store" /\ at' \in [Workers -> Steps] /\ Others(v)
    BY <2>1 DEF Go, Hold, Steps, Others, TypeInv, TypeOK
  <2>7. Fits(v)' /\ job'[v] \in Requests
    BY <1>1, <2>1, <2>6 DEF Fits
  <2>8. cache' = Nothing \/ (cache' \in Membership /\ rows'[cache'.id] # Nothing)
    BY <2>3 DEF Insert, TypeInv, TypeOK, RowsStay, Membership
  <2> QED BY <2>1, <2>3, <2>5, <2>6, <2>7, <2>8, OneWorkerMoves DEF Insert, TypeInv, TypeOK
<1> QED BY <1>2, <1>3

LEMMA DiffKeepsTypes ==
    ASSUME TypeInv, NEW v \in Workers, Diff(v)
    PROVE  TypeInv'
<1>1. Others(v) /\ RowsStay
  BY DEF TypeInv, TypeOK, Others, RowsStay, Diff, Go
<1>2. at'[v] = "save" /\ at' \in [Workers -> Steps]
  BY DEF TypeInv, TypeOK, Diff, Go, Steps
<1>3. dirty' \in [Workers -> SUBSET {"roles", "status", "deleted"}]
  BY DEF TypeInv, TypeOK, Diff
<1>4. Fits(v)'
  BY <1>2 DEF Fits, Diff, TypeInv
<1> QED BY <1>1, <1>2, <1>3, <1>4, OneWorkerMoves DEF TypeInv, TypeOK, Diff

\* The saved row is a row.
LEMMA SavedIsRow ==
    ASSUME NEW row \in Row, NEW m \in Membership, NEW columns
    PROVE  Saved(row, m, columns) \in Row
BY DEF Saved, Row, Membership

LEMMA SaveKeepsTypes ==
    ASSUME TypeInv, NEW v \in Workers, Save(v)
    PROVE  TypeInv'
<1> DEFINE id == seen[v].id
           row == Saved(rows[id], seen[v], dirty[v])
<1>1. seen[v] \in Membership /\ id \in Ids /\ rows[id] \in Row
  BY DEF Save, TypeInv, TypeOK, Membership
<1>2. row \in Row /\ row # Nothing
  BY <1>1, SavedIsRow, MembershipsAssumption
<1>3. RowsStay /\ rows'[id] # Nothing
  BY <1>1, <1>2 DEF Save, RowsStay, TypeInv, TypeOK
<1>4. [id |-> id, roles |-> row.roles, status |-> row.status] \in Membership
  BY <1>1, <1>2 DEF Row, Membership
<1>5. /\ seen'[v] \in Membership /\ seen'[v].id = id
      /\ seen' \in [Workers -> Membership \cup {Nothing}]
  BY <1>1, <1>4 DEF Save, Hold, TypeInv, TypeOK
<1>6. at'[v] = "store" /\ at' \in [Workers -> Steps] /\ Others(v)
  BY DEF Save, Go, Hold, Steps, Others, TypeInv, TypeOK
<1>7. Fits(v)'
  BY <1>6 DEF Fits
<1>8. cache' = Nothing \/ (cache' \in Membership /\ rows'[cache'.id] # Nothing)
  BY <1>3 DEF Save, TypeInv, TypeOK, RowsStay, Membership
<1> QED BY <1>3, <1>5, <1>6, <1>7, <1>8, OneWorkerMoves DEF Save, TypeInv, TypeOK

LEMMA UpdateKeepsTypes ==
    ASSUME TypeInv, NEW v \in Workers, Update(v)
    PROVE  TypeInv'
<1> DEFINE id == seen[v].id
<1>1. /\ seen[v] \in Membership /\ id \in Ids /\ rows[id] \in Row
      /\ job[v] \in Requests /\ job[v].op \in {"status", "softDelete", "restore"}
  BY DEF Update, TypeInv, TypeOK, Membership, Fits
<1>2. \E row \in Row : rows' = [rows EXCEPT ![id] = row]
  <2>1. CASE job[v].op = "status"
    <3>1. [rows[id] EXCEPT !.status = job[v].status] \in Row
      BY <1>1, <2>1, RequestFields DEF Row, AnyStatus
    <3>2. rows' = [rows EXCEPT ![id] = [rows[id] EXCEPT !.status = job[v].status]]
      BY <2>1 DEF Update
    <3> QED BY <3>1, <3>2
  <2>2. CASE job[v].op = "softDelete"
    <3>1. [rows[id] EXCEPT !.deleted = TRUE] \in Row
      BY <1>1 DEF Row
    <3>2. rows' = [rows EXCEPT ![id] = [rows[id] EXCEPT !.deleted = TRUE]]
      BY <2>2 DEF Update
    <3> QED BY <3>1, <3>2
  <2>3. CASE job[v].op = "restore"
    <3>1. [rows[id] EXCEPT !.deleted = FALSE] \in Row
      BY <1>1 DEF Row
    <3>2. rows' = [rows EXCEPT ![id] = [rows[id] EXCEPT !.deleted = FALSE]]
      BY <2>3 DEF Update
    <3> QED BY <3>1, <3>2
  <2> QED BY <1>1, <2>1, <2>2, <2>3
<1>3. RowsStay
  BY <1>1, <1>2, MembershipsAssumption DEF RowsStay, TypeInv, TypeOK
<1>4. Go(v, "lookup") \/ Go(v, "forget")
  BY <1>1 DEF Update
<1>5. /\ at' \in [Workers -> Steps] /\ at'[v] \in {"lookup", "forget"}
      /\ UNCHANGED <<cache, job, seen, dirty, requests>>
  BY <1>4 DEF Update, Go, Steps, TypeInv, TypeOK
<1>6. Others(v)
  BY <1>4, <1>5 DEF Others, Go, TypeInv, TypeOK
<1>7. Fits(v)'
  BY <1>5 DEF Fits
<1>8. cache' = Nothing \/ (cache' \in Membership /\ rows'[cache'.id] # Nothing)
  BY <1>3, <1>5 DEF TypeInv, TypeOK, RowsStay, Membership
<1> QED BY <1>1, <1>3, <1>5, <1>6, <1>7, <1>8, OneWorkerMoves DEF TypeInv, TypeOK

LEMMA CacheKeepsTypes ==
    ASSUME TypeInv, NEW v \in Workers,
           Lookup(v) \/ Query(v) \/ Fill(v) \/ Store(v) \/ Forget(v)
    PROVE  TypeInv'
<1>1. UNCHANGED <<rows, requests>>
  BY DEF Lookup, Query, Fill, Store, Forget
<1>2. cache' = Nothing \/ (cache' \in Membership /\ rows[cache'.id] # Nothing)
  BY DEF Lookup, Query, Fill, Store, Forget, TypeInv, TypeOK
<1>3. CASE Answer(v)
  BY <1>1, <1>2, <1>3, AnswerKeepsTypes
<1>4. ASSUME NEW m \in Membership \cup {Nothing}, NEW step \in {"query", "fill", "store"},
             step # "query" => m # Nothing /\ rows[m.id] # Nothing,
             Go(v, step), Hold(v, m), UNCHANGED <<job, dirty>>, at[v] # "idle"
      PROVE  TypeInv'
  <2>1. Others(v) /\ RowsStay
    BY <1>1, <1>4 DEF TypeInv, TypeOK, Others, RowsStay, Go, Hold
  <2>2. /\ at' \in [Workers -> Steps] /\ at'[v] = step
        /\ seen' \in [Workers -> Membership \cup {Nothing}] /\ seen'[v] = m
    BY <1>4 DEF TypeInv, TypeOK, Go, Hold, Steps
  <2>3. Fits(v)'
    BY <2>2 DEF Fits
  <2> QED BY <1>1, <1>2, <1>4, <2>1, <2>2, <2>3, OneWorkerMoves DEF TypeInv, TypeOK
<1>5. CASE Lookup(v)
  <2>1. CASE Go(v, "store") /\ Hold(v, cache) /\ cache # Nothing /\ UNCHANGED <<job, dirty>>
    BY <1>4, <1>5, <2>1 DEF Lookup, TypeInv, TypeOK
  <2>2. CASE Go(v, "query") /\ UNCHANGED <<job, seen, dirty>>
    <3>1. Hold(v, seen[v]) /\ seen[v] \in Membership \cup {Nothing}
      BY <2>2 DEF Hold, TypeInv, TypeOK
    <3> QED BY <1>4, <1>5, <2>2, <3>1 DEF Lookup
  <2> QED BY <1>3, <1>5, <2>1, <2>2 DEF Lookup
<1>6. CASE Query(v)
  <2>1. ASSUME NEW id \in Live(rows), Hold(v, Loaded(id)), Go(v, "fill"), UNCHANGED <<job, dirty>>
        PROVE  TypeInv'
    <3>1. Loaded(id) \in Membership /\ Loaded(id).id = id /\ rows[id] # Nothing
      BY LoadedIsMembership DEF TypeInv, TypeOK, Live, Loaded
    <3> QED BY <1>4, <1>6, <2>1, <3>1, MembershipsAssumption DEF Query
  <2> QED BY <1>3, <1>6, <2>1 DEF Query
<1>7. CASE Fill(v)
  <2>1. CASE Go(v, "store") /\ UNCHANGED <<job, seen, dirty>>
    <3>1. Hold(v, seen[v]) /\ seen[v] \in Membership /\ rows[seen[v].id] # Nothing
      BY <1>7, <2>1 DEF Fill, Hold, TypeInv, TypeOK
    <3> QED BY <1>4, <1>7, <2>1, <3>1, MembershipsAssumption DEF Fill
  <2> QED BY <1>3, <1>7, <2>1 DEF Fill
<1>8. CASE Store(v) \/ Forget(v)
  BY <1>3, <1>8 DEF Store, Forget
<1> QED BY <1>5, <1>6, <1>7, <1>8

LEMMA NextKeepsTypes == TypeInv /\ [Next]_vars => TypeInv'
<1> SUFFICES ASSUME TypeInv, [Next]_vars PROVE TypeInv'
  OBVIOUS
<1>1. ASSUME NEW v \in Workers, Begin(v) PROVE TypeInv'
  BY <1>1, BeginKeepsTypes
<1>2. ASSUME NEW v \in Workers, Serve(v) PROVE TypeInv'
  BY <1>2, FindKeepsTypes, InsertKeepsTypes, DiffKeepsTypes, SaveKeepsTypes,
     UpdateKeepsTypes, CacheKeepsTypes DEF Serve
<1>3. ASSUME NEW v \in Workers, Abandon(v) PROVE TypeInv'
  BY <1>3, AnswerKeepsTypes DEF Abandon, TypeInv, TypeOK
<1>4. CASE Expire
  BY <1>4 DEF Expire, TypeInv, TypeOK, Fits
<1>5. CASE UNCHANGED vars
  BY <1>5 DEF vars, TypeInv, TypeOK, Fits
<1> QED BY <1>1, <1>2, <1>3, <1>4, <1>5 DEF Next

\* Every request is served with values of the right types, and whatever is about
\* to be cached has a row.
THEOREM TypeCorrect == ContractSpec => []TypeOK
<1>1. ContractInit => TypeInv
  BY MembershipsAssumption DEF ContractInit, Init, TypeInv, TypeOK, Fits, Steps
<1>2. TypeInv /\ [ContractNext]_contractVars => TypeInv'
  BY NextKeepsTypes DEF ContractNext, contractVars, vars
<1>3. TypeInv => TypeOK
  BY DEF TypeInv
<1> QED BY <1>1, <1>2, <1>3, PTL DEF ContractSpec

-----------------------------------------------------------------------------
(* Promises.                                                               *)

\* What an undisturbed worker knows of the rows before it changes them: they are
\* the ones its request began with, the membership it holds is a live row with the
\* changes of the request, and the columns it is about to save hold all of them.
Alone(w) ==
    /\ before[w] = rows
    /\ at[w] = "insert" => Live(rows) = {}
    /\ at[w] \in {"diff", "save", "update"} => seen[w].id \in Live(rows)
    /\ at[w] \in {"diff", "save"} => seen[w] = Edited(Loaded(seen[w].id), job[w])
    /\ at[w] = "save" => \A c \in {"roles", "status"} :
                            seen[w][c] # rows[seen[w].id][c] => c \in dirty[w]

DatabaseSteps == {"find", "insert", "diff", "save", "update"}

AloneInv ==
    /\ before \in [Workers -> [Ids -> Row \cup {Nothing}] \cup {Disturbed}]
    /\ \A w \in Workers :
          at[w] \in DatabaseSteps /\ before[w] # Disturbed => Alone(w)

\* Only one worker's step need be looked at: another worker is disturbed by a
\* change of the rows and otherwise knows what it knew.
LEMMA OneWorkerKnows ==
    ASSUME TypeInv, AloneInv, Observe, NEW v \in Workers, Others(v), TypeInv',
           at'[v] \in DatabaseSteps /\ before'[v] # Disturbed => Alone(v)'
    PROVE  AloneInv'
<1>1. before' \in [Workers -> [Ids -> Row \cup {Nothing}] \cup {Disturbed}]
  BY DEF Observe, AloneInv, TypeInv, TypeOK
<1>2. ASSUME NEW w \in Workers \ {v}, at'[w] \in DatabaseSteps, before'[w] # Disturbed
      PROVE  Alone(w)'
  <2>1. /\ at'[w] = at[w] /\ job'[w] = job[w] /\ seen'[w] = seen[w] /\ dirty'[w] = dirty[w]
        /\ at[w] # "idle"
    BY <1>2 DEF Others, DatabaseSteps
  <2>2. rows' = rows /\ before'[w] = before[w]
    BY <1>2, <2>1 DEF Observe
  <2>3. Alone(w)
    BY <1>2, <2>1, <2>2 DEF AloneInv
  <2> QED BY <2>1, <2>2, <2>3 DEF Alone, Live, Loaded
<1> QED BY <1>1, <1>2 DEF AloneInv

LEMMA InitAlone == ContractInit => AloneInv
BY DEF ContractInit, Init, AloneInv, DatabaseSteps

\* Steps other than the ones of the database do not end in a database step.
LEMMA QuietStep ==
    ASSUME TypeInv, AloneInv, Observe, NEW v \in Workers, Others(v), TypeInv',
           at'[v] \notin DatabaseSteps
    PROVE  AloneInv'
BY OneWorkerKnows

LEMMA BeginAlone ==
    ASSUME TypeInv, AloneInv, Observe, TypeInv', NEW v \in Workers, Begin(v)
    PROVE  AloneInv'
<1>1. at[v] = "idle" /\ at'[v] \in {"find", "lookup"} /\ rows' = rows
  BY DEF Begin, Go, TypeInv, TypeOK
<1>2. Others(v)
  BY DEF Begin, Go, Others, TypeInv, TypeOK
<1>3. before'[v] = rows
  BY <1>1 DEF Observe
<1> QED BY <1>1, <1>2, <1>3, OneWorkerKnows DEF Alone

LEMMA FindAlone ==
    ASSUME TypeInv, AloneInv, Observe, TypeInv', NEW v \in Workers, Find(v)
    PROVE  AloneInv'
<1>1. Others(v) /\ rows' = rows /\ at[v] = "find"
  BY DEF Find, Answer, Go, Hold, Others, TypeInv, TypeOK
<1>2. ASSUME at'[v] \in DatabaseSteps, before'[v] # Disturbed PROVE Alone(v)'
  <2>1. at'[v] # "idle" /\ job' = job
    BY <1>2 DEF Find, Answer, Go, DatabaseSteps, TypeInv, TypeOK
  <2>2. before'[v] = before[v] /\ before[v] = rows
    BY <1>1, <1>2, <2>1 DEF Observe, AloneInv, Alone, DatabaseSteps
  <2>3. CASE Live(rows) = {}
    <3>1. at'[v] = "insert"
      BY <1>2, <2>1, <2>3 DEF Find, Answer, Go, DatabaseSteps, TypeInv, TypeOK
    <3> QED BY <1>1, <2>2, <2>3, <3>1 DEF Alone, Live
  <2>4. CASE Live(rows) # {}
    <3>1. PICK id \in Live(rows) :
            IF job[v].op \in {"add", "replace", "remove"}
              THEN Go(v, "diff") /\ Hold(v, Edited(Loaded(id), job[v]))
              ELSE Go(v, "update") /\ Hold(v, Loaded(id))
      BY <2>4 DEF Find
    <3>2. job[v] \in Requests /\ Loaded(id) \in Membership /\ Loaded(id).id = id
      BY <1>1, LoadedIsMembership DEF TypeInv, TypeOK, Loaded
    <3>3. CASE job[v].op \in {"add", "replace", "remove"}
      <4>1. at'[v] = "diff" /\ seen'[v] = Edited(Loaded(id), job[v]) /\ seen'[v].id = id
        BY <3>1, <3>2, <3>3, EditedIsMembership DEF Go, Hold, TypeInv, TypeOK
      <4> QED BY <1>1, <2>1, <2>2, <4>1 DEF Alone, Live, Loaded
    <3>4. CASE job[v].op \notin {"add", "replace", "remove"}
      <4>1. at'[v] = "update" /\ seen'[v].id = id
        BY <3>1, <3>2, <3>4 DEF Go, Hold, TypeInv, TypeOK
      <4> QED BY <1>1, <2>1, <2>2, <4>1 DEF Alone, Live
    <3> QED BY <3>3, <3>4
  <2> QED BY <2>3, <2>4
<1> QED BY <1>1, <1>2, OneWorkerKnows

LEMMA DiffAlone ==
    ASSUME TypeInv, AloneInv, Observe, TypeInv', NEW v \in Workers, Diff(v)
    PROVE  AloneInv'
<1>1. /\ at[v] = "diff" /\ at'[v] = "save" /\ Others(v)
      /\ rows' = rows /\ seen' = seen /\ job' = job
  BY DEF Diff, Go, Others, TypeInv, TypeOK
<1>2. ASSUME before'[v] # Disturbed PROVE Alone(v)'
  <2>1. before'[v] = before[v] /\ Alone(v)
    BY <1>1, <1>2 DEF Observe, AloneInv, DatabaseSteps
  <2>2. \A c \in {"roles", "status"} :
          seen[v][c] # rows[seen[v].id][c] => c \in dirty'[v]
    BY DEF Diff, TypeInv, TypeOK
  <2> QED BY <1>1, <2>1, <2>2 DEF Alone, Live, Loaded
<1> QED BY <1>1, <1>2, OneWorkerKnows

LEMMA NextAlone ==
    ASSUME TypeInv, AloneInv, [ContractNext]_contractVars
    PROVE  AloneInv'
<1>1. TypeInv'
  BY NextKeepsTypes DEF ContractNext, contractVars, vars
<1>2. CASE UNCHANGED contractVars
  BY <1>2 DEF contractVars, AloneInv, Alone, Live, Loaded
<1>3. CASE ContractNext
  <2>1. Observe
    BY <1>3 DEF ContractNext
  <2>2. ASSUME NEW v \in Workers, Answer(v) PROVE AloneInv'
    <3>1. Others(v) /\ at'[v] = "idle"
      BY <2>2 DEF Answer, Go, Hold, Others, TypeInv, TypeOK
    <3> QED BY <1>1, <2>1, <3>1, QuietStep DEF DatabaseSteps
  <2>3. ASSUME NEW v \in Workers, Insert(v) \/ Save(v) \/ Update(v) PROVE AloneInv'
    <3>1. CASE Answer(v)
      BY <2>2, <3>1
    <3>2. CASE ~Answer(v)
      <4>1. at'[v] \in {"store", "lookup", "forget"}
        <5>1. CASE Insert(v) \/ Save(v)
          BY <3>2, <5>1 DEF Insert, Save, Go, TypeInv, TypeOK
        <5>2. CASE Update(v)
          <6>1. job[v].op \in {"status", "softDelete", "restore"}
            BY <5>2 DEF Update, TypeInv, Fits
          <6> QED BY <5>2, <6>1 DEF Update, Go, TypeInv, TypeOK
        <5> QED BY <2>3, <5>1, <5>2
      <4>2. Others(v)
        <5>1. CASE Insert(v)
          BY <3>2, <5>1 DEF Insert, Go, Hold, Others, TypeInv, TypeOK
        <5>2. CASE Save(v)
          BY <5>2 DEF Save, Go, Hold, Others, TypeInv, TypeOK
        <5>3. CASE Update(v)
          <6>1. job[v].op \in {"status", "softDelete", "restore"}
            BY <5>3 DEF Update, TypeInv, Fits
          <6> QED BY <5>3, <6>1 DEF Update, Go, Others, TypeInv, TypeOK
        <5> QED BY <2>3, <5>1, <5>2, <5>3
      <4> QED BY <1>1, <2>1, <4>1, <4>2, QuietStep DEF DatabaseSteps
    <3> QED BY <3>1, <3>2
  <2>4. ASSUME NEW v \in Workers,
               Lookup(v) \/ Query(v) \/ Fill(v) \/ Store(v) \/ Forget(v)
        PROVE  AloneInv'
    <3>1. CASE Answer(v)
      BY <2>2, <3>1
    <3>2. CASE ~Answer(v)
      <4>1. Others(v) /\ at'[v] \in {"query", "fill", "store"}
        BY <2>4, <3>2 DEF Lookup, Query, Fill, Store, Forget, Go, Hold, Others, TypeInv, TypeOK
      <4> QED BY <1>1, <2>1, <4>1, QuietStep DEF DatabaseSteps
    <3> QED BY <3>1, <3>2
  <2>5. CASE Expire
    <3>1. UNCHANGED <<rows, at, job, seen, dirty>>
      BY <2>5 DEF Expire
    <3>2. \A w \in Workers : at[w] \in DatabaseSteps => before'[w] = before[w]
      BY <2>1, <3>1 DEF Observe, DatabaseSteps
    <3>3. before' \in [Workers -> [Ids -> Row \cup {Nothing}] \cup {Disturbed}]
      BY <2>1, <3>1 DEF Observe, AloneInv, TypeInv, TypeOK
    <3> QED BY <3>1, <3>2, <3>3 DEF AloneInv, Alone, Live, Loaded
  <2>6. \A v \in Workers : Begin(v) \/ Find(v) \/ Diff(v) => AloneInv'
    BY <1>1, <2>1, BeginAlone, FindAlone, DiffAlone
  <2> QED BY <1>3, <2>2, <2>3, <2>4, <2>5, <2>6 DEF ContractNext, Next, Serve, Abandon
<1> QED BY <1>2, <1>3

\* The step in which a request changes the rows and goes on is its worker's own.
LEMMA OwnStep ==
    ASSUME TypeInv, Next, NEW w \in Workers, at'[w] # at[w],
           at[w] \in {"insert", "save", "update"}, at'[w] # "idle"
    PROVE  Insert(w) \/ Save(w) \/ Update(w)
<1>1. ~Expire
  BY DEF Expire
<1>2. PICK v \in Workers : Begin(v) \/ Serve(v) \/ Abandon(v)
  BY <1>1 DEF Next
<1>3. at' = [at EXCEPT ![v] = at'[v]]
  BY <1>2 DEF Begin, Serve, Abandon, Answer, Go, Find, Insert, Diff, Save, Update,
              Lookup, Query, Fill, Store, Forget, TypeInv, TypeOK, Fits
<1>4. v = w
  BY <1>3 DEF TypeInv, TypeOK
<1>5. ~Abandon(w)
  BY DEF Abandon, Answer, Go, TypeInv, TypeOK
<1> QED BY <1>2, <1>4, <1>5 DEF Begin, Serve, Find, Diff, Lookup, Query, Fill, Store, Forget

LEMMA InsertKeepsPromise ==
    ASSUME TypeInv, NEW w \in Workers, Insert(w), Alone(w), at'[w] # "idle"
    PROVE  /\ Promised(job[w], rows, rows')
           /\ ~Several(rows')
           /\ seen'[w].id \in Live(rows')
           /\ seen'[w].roles = rows'[seen'[w].id].roles
           /\ seen'[w].status = rows'[seen'[w].id].status
<1> DEFINE new == job[w]
           row == [roles |-> new.roles, status |-> new.status, deleted |-> FALSE]
<1>1. new \in Requests /\ new.op = "add" /\ Live(rows) = {}
  BY DEF Insert, TypeInv, TypeOK, Fits, Alone
<1>2. ~Answer(w)
  BY DEF Answer, Go, TypeInv, TypeOK
<1>3. PICK id \in Ids :
        /\ rows[id] = Nothing
        /\ rows' = [rows EXCEPT ![id] = row]
        /\ Hold(w, [id |-> id, roles |-> new.roles, status |-> new.status])
  BY <1>2 DEF Insert
<1>4. new.roles # {} /\ row \in Row /\ row # Nothing
  <2>1. new.roles # {} /\ row \in Row
    BY <1>1, <1>2, RequestFields DEF Insert, Row
  <2> HIDE DEF row
  <2> QED BY <2>1, MembershipsAssumption
<1>5. seen'[w] = [id |-> id, roles |-> new.roles, status |-> new.status]
  BY <1>3 DEF Hold, TypeInv, TypeOK
<1>6. rows'[id] = row /\ \A other \in Ids \ {id} : rows'[other] = rows[other]
  BY <1>3 DEF TypeInv, TypeOK
<1>7. Live(rows') = {id}
  BY <1>1, <1>4, <1>6 DEF Live
<1>8. Promised(new, rows, rows')
  BY <1>1, <1>3, <1>4 DEF Promised, Created
<1> QED BY <1>5, <1>6, <1>7, <1>8 DEF Several

\* A row with one column, or two, changed.
LEMMA ChangedRow ==
    ASSUME NEW row \in Row, NEW roles, NEW status
    PROVE  /\ [row EXCEPT !.roles = roles] =
                 [roles |-> roles, status |-> row.status, deleted |-> row.deleted]
           /\ [row EXCEPT !.roles = roles, !.status = status] =
                 [roles |-> roles, status |-> status, deleted |-> row.deleted]
<1> DEFINE half == [row EXCEPT !.roles = roles]
<1>1. half = [roles |-> roles, status |-> row.status, deleted |-> row.deleted]
  BY DEF Row
<1>2. half \in [roles : {roles}, status : AnyStatus, deleted : BOOLEAN]
  BY <1>1 DEF Row
<1>3. [row EXCEPT !.roles = roles, !.status = status] = [half EXCEPT !.status = status]
  BY DEF Row
<1> HIDE DEF half
<1>4. [half EXCEPT !.status = status] =
        [roles |-> roles, status |-> status, deleted |-> row.deleted]
  BY <1>1, <1>2
<1> QED BY <1>1, <1>3, <1>4 DEF half

LEMMA SaveKeepsPromise ==
    ASSUME TypeInv, NEW w \in Workers, Save(w), Alone(w)
    PROVE  /\ Promised(job[w], rows, rows')
           /\ Live(rows') = Live(rows)
           /\ seen'[w].id \in Live(rows')
           /\ seen'[w].roles = rows'[seen'[w].id].roles
           /\ seen'[w].status = rows'[seen'[w].id].status
<1> DEFINE id  == seen[w].id
           m   == seen[w]
           row == [roles |-> m.roles, status |-> m.status, deleted |-> FALSE]
<1>1. /\ job[w] \in Requests /\ job[w].op \in {"add", "replace", "remove"}
      /\ m \in Membership /\ id \in Ids /\ id \in Live(rows) /\ rows[id] \in Row
      /\ ~rows[id].deleted
  BY DEF Save, TypeInv, TypeOK, Fits, Alone, Live, Membership
<1>2. m = Edited(Loaded(id), job[w])
  BY DEF Save, Alone
<1>3. /\ m.roles # rows[id].roles => "roles" \in dirty[w]
      /\ m.status # rows[id].status => "status" \in dirty[w]
  BY DEF Save, Alone
<1>4. Saved(rows[id], m, dirty[w]) = row
  BY <1>1, <1>3 DEF Saved, Row
<1>5. rows' = [rows EXCEPT ![id] = row]
  BY <1>4 DEF Save
<1>6. seen'[w] = [id |-> id, roles |-> m.roles, status |-> m.status]
  BY <1>4 DEF Save, Hold, TypeInv, TypeOK
<1>7. row # Nothing
  <2>1. row \in Row
    BY <1>1 DEF Row, Membership
  <2> HIDE DEF row
  <2> QED BY <2>1, MembershipsAssumption
<1>8. rows'[id] = row /\ \A other \in Ids \ {id} : rows'[other] = rows[other]
  BY <1>1, <1>5 DEF TypeInv, TypeOK
<1>9. Live(rows') = Live(rows)
  BY <1>1, <1>7, <1>8 DEF Live
<1>10. rows[id].deleted = FALSE
  BY <1>1 DEF Row
<1>11. Promised(job[w], rows, rows')
  <2>1. CASE job[w].op = "add"
    <3> DEFINE saved == [rows[id] EXCEPT !.roles  = rows[id].roles \cup job[w].roles,
                                         !.status = IF job[w].status = NoStatus
                                                      THEN rows[id].status ELSE job[w].status]
    <3>1. row = saved
      <4> DEFINE roles  == rows[id].roles \cup job[w].roles
                 status == IF job[w].status = NoStatus
                             THEN rows[id].status ELSE job[w].status
      <4>1. m.roles = roles /\ m.status = status
        BY <1>2, <2>1 DEF Edited, Loaded
      <4>2. [rows[id] EXCEPT !.roles = roles, !.status = status] =
              [roles |-> roles, status |-> status, deleted |-> rows[id].deleted]
        <5> HIDE DEF roles, status
        <5> QED BY <1>1, ChangedRow, Zenon
      <4> QED BY <1>10, <4>1, <4>2
    <3>2. rows' = [rows EXCEPT ![id] = saved]
      BY <1>5, <3>1
    <3> QED BY <1>1, <2>1, <3>2 DEF Promised, Changed
  <2>2. CASE job[w].op = "replace"
    <3>1. row = [rows[id] EXCEPT !.roles = job[w].roles]
      <4>1. Edited(Loaded(id), job[w]) =
              [id |-> id, roles |-> job[w].roles, status |-> rows[id].status]
        BY <2>2 DEF Edited, Loaded
      <4>2. m.roles = job[w].roles /\ m.status = rows[id].status
        BY <1>2, <4>1
      <4>3. [rows[id] EXCEPT !.roles = job[w].roles] =
              [roles |-> job[w].roles, status |-> rows[id].status,
               deleted |-> rows[id].deleted]
        BY <1>1, ChangedRow, Zenon
      <4> QED BY <1>10, <4>2, <4>3
    <3>2. rows' = [rows EXCEPT ![id] = [rows[id] EXCEPT !.roles = job[w].roles]]
      BY <1>5, <3>1
    <3> QED BY <1>1, <2>2, <3>2 DEF Promised, Changed
  <2>3. CASE job[w].op = "remove"
    <3>1. row = [rows[id] EXCEPT !.roles = rows[id].roles \ job[w].roles]
      <4>1. Edited(Loaded(id), job[w]) =
              [id |-> id, roles |-> rows[id].roles \ job[w].roles, status |-> rows[id].status]
        BY <2>3 DEF Edited, Loaded
      <4>2. m.roles = rows[id].roles \ job[w].roles /\ m.status = rows[id].status
        BY <1>2, <4>1
      <4>3. [rows[id] EXCEPT !.roles = rows[id].roles \ job[w].roles] =
              [roles |-> rows[id].roles \ job[w].roles, status |-> rows[id].status,
               deleted |-> rows[id].deleted]
        BY <1>1, ChangedRow, Zenon
      <4> QED BY <1>10, <4>2, <4>3
    <3>2. rows' = [rows EXCEPT ![id] = [rows[id] EXCEPT !.roles = rows[id].roles \ job[w].roles]]
      BY <1>5, <3>1
    <3> QED BY <1>1, <2>3, <3>2 DEF Promised, Changed
  <2> QED BY <1>1, <2>1, <2>2, <2>3
<1> QED BY <1>1, <1>6, <1>8, <1>9, <1>11

LEMMA UpdateKeepsPromise ==
    ASSUME TypeInv, NEW w \in Workers, Update(w), Alone(w)
    PROVE  /\ job[w].op # "restore" => Promised(job[w], rows, rows')
           /\ Live(rows') \subseteq Live(rows)
<1> DEFINE id == seen[w].id
<1>1. /\ job[w] \in Requests /\ job[w].op \in {"status", "softDelete", "restore"}
      /\ id \in Live(rows) /\ rows[id] \in Row /\ id \in Ids /\ ~rows[id].deleted
  BY DEF Update, TypeInv, TypeOK, Fits, Alone, Live
<1>2. CASE job[w].op = "status"
  <2>1. rows' = [rows EXCEPT ![id] = [rows[id] EXCEPT !.status = job[w].status]]
    BY <1>2 DEF Update
  <2>2. Promised(job[w], rows, rows')
    BY <1>1, <1>2, <2>1 DEF Promised, Changed
  <2>3. [rows[id] EXCEPT !.status = job[w].status].deleted = rows[id].deleted
    BY <1>1 DEF Row
  <2> QED BY <1>1, <2>1, <2>2, <2>3 DEF Live, TypeInv, TypeOK
<1>3. CASE job[w].op = "softDelete"
  <2>1. rows' = [rows EXCEPT ![id] = [rows[id] EXCEPT !.deleted = TRUE]]
    BY <1>3 DEF Update
  <2>2. Promised(job[w], rows, rows')
    BY <1>1, <1>3, <2>1 DEF Promised, Changed
  <2> QED BY <1>1, <2>1, <2>2 DEF Live, TypeInv, TypeOK
<1>4. CASE job[w].op = "restore"
  <2>1. rows' = [rows EXCEPT ![id] = [rows[id] EXCEPT !.deleted = FALSE]]
    BY <1>4 DEF Update
  <2>2. [rows[id] EXCEPT !.deleted = FALSE] = rows[id]
    BY <1>1 DEF Row
  <2>3. rows' = rows
    BY <2>1, <2>2 DEF TypeInv, TypeOK
  <2> QED BY <1>4, <2>3
<1> QED BY <1>1, <1>2, <1>3, <1>4

\* What a worker knows when it changes the rows undisturbed.
LEMMA KnowsBefore ==
    ASSUME AloneInv, NEW w \in Workers, at[w] \in {"insert", "save", "update"},
           before[w] # Disturbed
    PROVE  Alone(w) /\ before[w] = rows
BY DEF AloneInv, Alone, DatabaseSteps

LEMMA Invariants == ContractSpec => [](TypeInv /\ AloneInv)
<1>1. ContractInit => TypeInv /\ AloneInv
  BY InitAlone, MembershipsAssumption DEF ContractInit, Init, TypeInv, TypeOK, Fits, Steps
<1>2. TypeInv /\ AloneInv /\ [ContractNext]_contractVars => (TypeInv /\ AloneInv)'
  BY NextAlone, NextKeepsTypes DEF ContractNext, contractVars, vars
<1> QED BY <1>1, <1>2, PTL DEF ContractSpec

\* Requests to add, replace or remove roles, to set the status and to soft-delete
\* that nobody disturbs do to the rows exactly what AloneAsPromised says, and cache
\* the row they saved, for any number of memberships, roles and workers.  (restore
\* does not do what it documents, and is not among them.)
THEOREM PromisesKept == ContractSpec => AloneAsPromised
<1> DEFINE Kept(w) ==
      /\ at[w] \in {"insert", "save", "update"} /\ job[w].op # "restore"
      /\ at'[w] \in {"store", "lookup", "forget"}
      /\ before[w] # Disturbed
      => /\ Promised(job[w], before[w], rows')
         /\ at'[w] = "store" => /\ seen'[w].id \in Live(rows')
                                /\ seen'[w].roles = rows'[seen'[w].id].roles
                                /\ seen'[w].status = rows'[seen'[w].id].status
<1>1. ASSUME TypeInv, AloneInv, [ContractNext]_contractVars, NEW w \in Workers
      PROVE  Kept(w)
  <2> SUFFICES ASSUME at[w] \in {"insert", "save", "update"}, job[w].op # "restore",
                      at'[w] \in {"store", "lookup", "forget"}, before[w] # Disturbed
               PROVE  Kept(w)
    OBVIOUS
  <2>1. at'[w] # at[w] /\ at'[w] # "idle" /\ Next
    BY <1>1 DEF ContractNext, contractVars
  <2>2. Alone(w) /\ before[w] = rows
    BY <1>1, KnowsBefore
  <2>3. Insert(w) \/ Save(w) \/ Update(w)
    BY <1>1, <2>1, OwnStep
  <2>4. CASE Insert(w)
    BY <1>1, <2>1, <2>2, <2>4, InsertKeepsPromise
  <2>5. CASE Save(w)
    BY <1>1, <2>2, <2>5, SaveKeepsPromise
  <2>6. CASE Update(w)
    <3>1. at'[w] # "store"
      BY <1>1, <2>6 DEF Update, Go, TypeInv, TypeOK, Fits
    <3> QED BY <1>1, <2>2, <2>6, <3>1, UpdateKeepsPromise
  <2> QED BY <2>3, <2>4, <2>5, <2>6
<1>2. TypeInv /\ AloneInv /\ [ContractNext]_contractVars
        => [\A w \in Workers : Kept(w)]_contractVars
  BY <1>1
<1> QED BY <1>2, Invariants, PTL DEF ContractSpec, AloneAsPromised

\* Duplicate memberships come only from requests that overlap.
THEOREM DuplicatesNeedOverlap == ContractSpec => OneMembershipAlone
<1> DEFINE Single(w) == Several(rows') /\ ~Several(rows) /\ at'[w] # at[w]
                          => before[w] = Disturbed
<1>1. ASSUME TypeInv, AloneInv, [ContractNext]_contractVars, NEW w \in Workers
      PROVE  Single(w)
  <2> SUFFICES ASSUME Several(rows'), ~Several(rows), at'[w] # at[w], before[w] # Disturbed
               PROVE  FALSE
    OBVIOUS
  <2>1. Next /\ rows' # rows
    BY <1>1 DEF ContractNext, contractVars
  <2>2. PICK v \in Workers : Insert(v) \/ Save(v) \/ Update(v)
    BY <2>1 DEF Next, Serve, Begin, Abandon, Expire, Find, Diff, Lookup, Query, Fill, Store, Forget
  <2>3. at' = [at EXCEPT ![v] = at'[v]]
    BY <1>1, <2>2 DEF Insert, Save, Update, Answer, Go, TypeInv, TypeOK, Fits
  <2>4. v = w
    BY <1>1, <2>3 DEF TypeInv, TypeOK
  <2>5. at[w] \in {"insert", "save", "update"}
    BY <2>2, <2>4 DEF Insert, Save, Update
  <2>6. Alone(w)
    BY <1>1, <2>5, KnowsBefore
  <2>7. CASE Insert(w)
    <3>1. at'[w] # "idle"
      BY <1>1, <2>1, <2>7 DEF Insert, Go, TypeInv, TypeOK
    <3> QED BY <1>1, <2>6, <2>7, <3>1, InsertKeepsPromise
  <2>8. CASE Save(w)
    BY <1>1, <2>6, <2>8, SaveKeepsPromise DEF Several
  <2>9. CASE Update(w)
    BY <1>1, <2>6, <2>9, UpdateKeepsPromise DEF Several
  <2> QED BY <2>2, <2>4, <2>7, <2>8, <2>9
<1>2. TypeInv /\ AloneInv /\ [ContractNext]_contractVars
        => [\A w \in Workers : Single(w)]_contractVars
  BY <1>1
<1> QED BY <1>2, Invariants, PTL DEF ContractSpec, OneMembershipAlone

=============================================================================
