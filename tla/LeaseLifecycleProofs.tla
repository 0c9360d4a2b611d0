------------------------- MODULE LeaseLifecycleProofs -------------------------
(***************************************************************************)
(* LeaseLifecycle implements LeaseLife: proofs for every set of leases,    *)
(* workers, days and changes.  The caches play no part in them.            *)
(***************************************************************************)
EXTENDS LeaseLifecycle, TLAPS

\* What the steps that write rows rely on: the table holds rows, whose end dates
\* are recorded, a deleted lease has none, and a worker about to write holds the
\* request that brought it there and, to extend or terminate, a row with an end
\* date the lease has had.
TableInv ==
    /\ rows \in [Leases -> Row \cup {Nothing}]
    /\ \A l \in deleted : rows[l] = Nothing
    /\ ends \in [Leases -> SUBSET Days]
    /\ \A l \in Leases : rows[l] # Nothing => rows[l].endDate \in ends[l]

WorkerInv(w) ==
    /\ at[w] = "insert" =>
          /\ job[w].row \in Row
          /\ job[w].row.startDate < job[w].row.endDate
          /\ job[w].row.termination = NoDate
    /\ at[w] \in {"load", "write"} =>
          /\ job[w].op \in {"update", "extend", "terminate"}
          /\ job[w].id \in Leases
          /\ job[w].op = "update" => job[w].change \in Changes
          /\ job[w].op # "update" => job[w].date \in Days
    /\ at[w] = "load" => job[w].op # "update"
    /\ at[w] = "write" /\ job[w].op # "update" =>
          /\ seen[w] \in Row
          /\ seen[w].endDate \in ends[job[w].id]
          /\ job[w].op = "extend" => job[w].date > seen[w].endDate
    /\ at[w] = "remove" => job[w].id \in Leases

WriterInv ==
    /\ TableInv
    /\ DOMAIN at = Workers /\ DOMAIN job = Workers /\ DOMAIN seen = Workers
    /\ \A w \in Workers : WorkerInv(w)

LEMMA InitWriterInv == Init => WriterInv
  BY DEF Init, WriterInv, TableInv, WorkerInv

\* Replacing columns of a row by ones of their types gives a row.
LEMMA WithIsRow ==
    ASSUME NEW row \in Row, NEW w \in Workers, WriterInv, at[w] = "write"
    PROVE  With(row, Change(w)) \in Row
<1>1. /\ row.startDate \in Days /\ row.endDate \in Days /\ row.status \in Statuses
      /\ row.termination \in Days \cup {NoDate}
      /\ DOMAIN row = {"startDate", "endDate", "status", "termination"}
      /\ job[w].op \in {"update", "extend", "terminate"}
  BY DEF Row, WriterInv, WorkerInv
<1>2. CASE job[w].op = "update"
  BY <1>2, RowsAssumption DEF WriterInv, WorkerInv, Change
<1>3. CASE job[w].op = "extend"
  <2>1. job[w].date \in Days /\ Change(w) = [endDate |-> job[w].date]
    BY <1>3 DEF WriterInv, WorkerInv, Change
  <2>2. With(row, Change(w)) =
          [startDate |-> row.startDate, endDate |-> job[w].date,
           status |-> row.status, termination |-> row.termination]
    BY <1>1, <2>1 DEF With
  <2> QED BY <1>1, <2>1, <2>2 DEF Row
<1>4. CASE job[w].op = "terminate"
  <2> DEFINE end == IF job[w].date < seen[w].endDate THEN job[w].date ELSE seen[w].endDate
  <2>1. job[w].date \in Days /\ seen[w] \in Row
    BY <1>4 DEF WriterInv, WorkerInv
  <2>2. end \in Days
    BY <2>1 DEF Row
  <2>3. Change(w) = [status |-> "terminated", endDate |-> end, termination |-> job[w].date]
    BY <1>4 DEF Change
  <2>4. With(row, Change(w)) =
          [startDate |-> row.startDate, endDate |-> end,
           status |-> "terminated", termination |-> job[w].date]
    <3> HIDE DEF end
    <3> QED BY <1>1, <2>3 DEF With
  <2> QED BY <1>1, <2>1, <2>2, <2>4, RowsAssumption DEF Row
<1> QED BY <1>1, <1>2, <1>3, <1>4

-----------------------------------------------------------------------------
(* WriterInv is inductive.                                                 *)

\* No end date a lease has had is forgotten.
Remembers == \A l \in Leases : ends[l] \subseteq ends'[l]

LEMMA UnchangedRemembers == UNCHANGED ends => Remembers
  BY DEF Remembers

LEMMA HasHadRemembers ==
    ASSUME WriterInv, NEW l \in Leases, NEW end \in Days, HasHad(l, end)
    PROVE  /\ Remembers /\ ends' \in [Leases -> SUBSET Days]
           /\ ends'[l] = ends[l] \cup {end}
           /\ \A m \in Leases \ {l} : ends'[m] = ends[m]
  BY DEF WriterInv, TableInv, HasHad, Remembers

\* A step of worker w leaves the other workers where they are.
Only(w) ==
    /\ DOMAIN at' = Workers /\ DOMAIN job' = Workers /\ DOMAIN seen' = Workers
    /\ \A v \in Workers \ {w} : at'[v] = at[v] /\ job'[v] = job[v] /\ seen'[v] = seen[v]

LEMMA StepKeepsWriterInv ==
    ASSUME WriterInv, NEW w \in Workers, Only(w), Remembers, TableInv', WorkerInv(w)'
    PROVE  WriterInv'
<1>1. ASSUME NEW v \in Workers \ {w} PROVE WorkerInv(v)'
  BY <1>1 DEF WriterInv, WorkerInv, Only, Remembers
<1> QED BY <1>1 DEF WriterInv, Only

\* Away from the steps that write, or about to, nothing is required of a worker.
LEMMA Harmless ==
    ASSUME NEW w \in Workers, at'[w] \notin {"insert", "load", "write", "remove"}
    PROVE  WorkerInv(w)'
  BY DEF WorkerInv

\* Answering a request.
LEMMA AnswerKeeps ==
    ASSUME WriterInv, NEW w \in Workers, Answer(w)
    PROVE  Only(w) /\ WorkerInv(w)'
<1>1. at'[w] = "idle" /\ Only(w)
  BY DEF Answer, Go, See, WriterInv, Only
<1> QED BY <1>1, Harmless

LEMMA BeginKeeps ==
    ASSUME WriterInv, NEW w \in Workers, Begin(w)
    PROVE  WriterInv'
<1>1. PICK request \in WriteRequests \cup ReadRequests :
         /\ job' = [job EXCEPT ![w] = request]
         /\ at' = [at EXCEPT ![w] = FirstStep(request.op)]
  BY DEF Begin, Go
<1>2. /\ job'[w] = request /\ at'[w] = FirstStep(request.op)
      /\ Only(w) /\ UNCHANGED <<rows, deleted, ends>>
  BY <1>1 DEF Begin, WriterInv, Only
<1>3. WorkerInv(w)'
  <2>1. CASE request \in [op : {"create"}, row : {r \in Row : r.startDate < r.endDate /\ r.termination = NoDate}]
    BY <1>2, <2>1 DEF WorkerInv, FirstStep
  <2>2. CASE request \in [op : {"update"}, id : Leases, change : Changes]
    BY <1>2, <2>2 DEF WorkerInv, FirstStep
  <2>3. CASE request \in [op : {"extend", "terminate"}, id : Leases, date : Days]
    BY <1>2, <2>3 DEF WorkerInv, FirstStep
  <2>4. CASE request \in [op : {"delete"}, id : Leases]
    BY <1>2, <2>4 DEF WorkerInv, FirstStep
  <2>5. CASE request \in ReadRequests
    BY <1>2, <2>5 DEF WorkerInv, FirstStep, ReadRequests
  <2> QED BY <2>1, <2>2, <2>3, <2>4, <2>5 DEF WriteRequests
<1>4. TableInv'
  BY <1>2 DEF WriterInv, TableInv
<1> QED BY <1>2, <1>3, <1>4, StepKeepsWriterInv, UnchangedRemembers

LEMMA NextWriterInv == WriterInv /\ [Next]_vars => WriterInv'
<1> SUFFICES ASSUME WriterInv, [Next]_vars PROVE WriterInv'
  OBVIOUS
<1>1. ASSUME UNCHANGED <<rows, deleted, ends>> PROVE TableInv' /\ Remembers
  BY <1>1, UnchangedRemembers DEF WriterInv, TableInv
<1>2. ASSUME NEW w \in Workers, Begin(w) PROVE WriterInv'
  BY <1>2, BeginKeeps
<1>3. ASSUME NEW w \in Workers, Insert(w) PROVE WriterInv'
  <2>1. CASE Answer(w) /\ UNCHANGED <<rows, deleted, ends>>
    BY <1>1, <2>1, AnswerKeeps, StepKeepsWriterInv
  <2>2. ASSUME NEW l \in Leases \ deleted, rows' = [rows EXCEPT ![l] = job[w].row],
               seen' = [seen EXCEPT ![w] = [id |-> l, row |-> job[w].row]],
               at' = [at EXCEPT ![w] = "store"], UNCHANGED <<job, deleted>>,
               HasHad(l, job[w].row.endDate)
        PROVE  WriterInv'
    <3>1. at'[w] = "store" /\ Only(w)
      BY <2>2 DEF WriterInv, Only
    <3>2. job[w].row \in Row
      BY <1>3 DEF Insert, WriterInv, WorkerInv
    <3>3. job[w].row.endDate \in Days
      BY <3>2 DEF Row
    <3>4. TableInv' /\ Remembers
      BY <2>2, <3>2, <3>3, HasHadRemembers DEF WriterInv, TableInv
    <3> QED BY <3>1, <3>4, Harmless, StepKeepsWriterInv
  <2> QED BY <1>3, <2>1, <2>2 DEF Insert, Go, See
<1>4. ASSUME NEW w \in Workers, Load(w) PROVE WriterInv'
  <2>1. TableInv' /\ Remembers /\ UNCHANGED ends
    BY <1>1, <1>4 DEF Load
  <2>2. CASE Answer(w)
    BY <2>1, <2>2, AnswerKeeps, StepKeepsWriterInv
  <2>3. CASE ~Answer(w)
    <3>1. /\ rows[job[w].id] # Nothing /\ at[w] = "load"
          /\ job[w].op = "extend" => job[w].date > rows[job[w].id].endDate
          /\ seen' = [seen EXCEPT ![w] = rows[job[w].id]]
          /\ at' = [at EXCEPT ![w] = "write"] /\ UNCHANGED job
      BY <1>4, <2>3 DEF Load, Go, See
    <3>2. /\ at'[w] = "write" /\ seen'[w] = rows[job[w].id] /\ job'[w] = job[w]
          /\ Only(w)
      BY <3>1 DEF WriterInv, Only
    <3>3. rows[job[w].id] \in Row /\ rows[job[w].id].endDate \in ends[job[w].id]
      BY <3>1 DEF WriterInv, WorkerInv, TableInv
    <3>4. WorkerInv(w)'
      BY <2>1, <3>1, <3>2, <3>3 DEF WriterInv, WorkerInv
    <3> QED BY <2>1, <3>2, <3>4, StepKeepsWriterInv
  <2> QED BY <2>2, <2>3
<1>5. ASSUME NEW w \in Workers, WriteColumns(w) PROVE WriterInv'
  <2>1. CASE Answer(w) /\ UNCHANGED <<rows, ends>>
    BY <1>1, <1>5, <2>1, AnswerKeeps, StepKeepsWriterInv DEF WriteColumns
  <2> DEFINE Recorded ==
        IF rows'[job[w].id] = Nothing THEN UNCHANGED ends
                                      ELSE HasHad(job[w].id, rows'[job[w].id].endDate)
  <2>2. CASE /\ rows' = Updated(job[w].id, w) /\ Recorded
             /\ Go(w, "reload") /\ UNCHANGED <<job, seen>>
    <3>1. at[w] = "write" /\ UNCHANGED deleted /\ at'[w] = "reload" /\ Only(w)
      BY <1>5, <2>2 DEF WriteColumns, Go, WriterInv, Only
    <3>2. job[w].id \in Leases
      BY <3>1 DEF WriterInv, WorkerInv
    <3>3. rows[job[w].id] # Nothing => With(rows[job[w].id], Change(w)) \in Row
      BY <3>1, <3>2, WithIsRow DEF WriterInv, TableInv
    <3>4. CASE rows[job[w].id] = Nothing
      <4>1. UNCHANGED <<rows, deleted, ends>>
        BY <2>2, <3>1, <3>4 DEF Updated
      <4> QED BY <1>1, <3>1, <4>1, Harmless, StepKeepsWriterInv
    <3>5. CASE rows[job[w].id] # Nothing
      <4> DEFINE row == With(rows[job[w].id], Change(w))
      <4>1. row \in Row /\ row.endDate \in Days
        BY <3>3, <3>5 DEF Row
      <4> HIDE DEF row
      <4>2. rows' = [rows EXCEPT ![job[w].id] = row]
        BY <2>2, <3>5 DEF Updated, row
      <4>3. rows'[job[w].id] = row
        BY <3>2, <4>2 DEF WriterInv, TableInv
      <4>4. HasHad(job[w].id, row.endDate)
        BY <2>2, <4>1, <4>3, LifecycleAssumption
      <4>5. TableInv' /\ Remembers
        <5> DEFINE l == job[w].id
        <5>1. l \in Leases /\ rows' = [rows EXCEPT ![l] = row]
          BY <3>2, <4>2
        <5> HIDE DEF l
        <5>2. /\ Remembers /\ ends' \in [Leases -> SUBSET Days] /\ row.endDate \in ends'[l]
              /\ \A m \in Leases \ {l} : ends'[m] = ends[m]
          BY <4>1, <4>4, <5>1, HasHadRemembers DEF l
        <5>3. rows[l] # Nothing /\ UNCHANGED deleted
          BY <3>1, <3>5 DEF l
        <5>4. rows' \in [Leases -> Row \cup {Nothing}] /\ rows'[l] = row
              /\ \A m \in Leases \ {l} : rows'[m] = rows[m]
          BY <4>1, <5>1 DEF WriterInv, TableInv
        <5>5. \A m \in deleted' : rows'[m] = Nothing
          BY <5>1, <5>3 DEF WriterInv, TableInv
        <5>6. \A m \in Leases : rows'[m] # Nothing => rows'[m].endDate \in ends'[m]
          BY <5>2, <5>4 DEF WriterInv, TableInv
        <5> QED BY <5>2, <5>4, <5>5, <5>6 DEF TableInv
      <4> QED BY <3>1, <4>5, Harmless, StepKeepsWriterInv
    <3> QED BY <3>4, <3>5
  <2> QED BY <1>5, <2>1, <2>2 DEF WriteColumns
<1>6. ASSUME NEW w \in Workers, Remove(w) PROVE WriterInv'
  <2>1. at'[w] = "forget" /\ Only(w) /\ job[w].id \in Leases
    BY <1>6 DEF Remove, Go, WriterInv, WorkerInv, Only
  <2>2. TableInv' /\ Remembers
    BY <1>6, <2>1, UnchangedRemembers DEF Remove, WriterInv, TableInv
  <2> QED BY <2>1, <2>2, Harmless, StepKeepsWriterInv
<1>7. ASSUME NEW w \in Workers,
             Reload(w) \/ Forget(w) \/ Store(w) \/ Lookup(w) \/ Query(w) \/ Abandon(w)
      PROVE  WriterInv'
  <2>1. UNCHANGED <<rows, deleted, ends>>
    BY <1>7 DEF Reload, Forget, Store, Lookup, Query, Abandon
  <2>2. CASE Answer(w)
    BY <1>1, <2>1, <2>2, AnswerKeeps, StepKeepsWriterInv
  <2>3. CASE ~Answer(w)
    <3>1. at'[w] \in {"forget", "store", "query"} /\ Only(w)
      BY <1>7, <2>3 DEF Reload, Forget, Store, Lookup, Query, Abandon, Go, See, WriterInv, Only
    <3> QED BY <1>1, <2>1, <3>1, Harmless, StepKeepsWriterInv
  <2> QED BY <2>2, <2>3
<1>8. ASSUME NEW key \in Keys, Expire(key) PROVE WriterInv'
  BY <1>8 DEF Expire, WriterInv, TableInv, WorkerInv
<1>9. CASE UNCHANGED vars
  BY <1>9 DEF vars, WriterInv, TableInv, WorkerInv
<1> QED BY <1>2, <1>3, <1>4, <1>5, <1>6, <1>7, <1>8, <1>9 DEF Next, Serve

-----------------------------------------------------------------------------
(* Each step that writes rows is a step of LeaseLife, every other one a    *)
(* stutter.                                                                *)

LEMMA LifeOfRow ==
    ASSUME WriterInv, NEW l \in Leases
    PROVE  /\ rows[l] # Nothing => LifeOf[l] = rows[l] /\ LifeOf[l] \in Row
           /\ Life!Live(l) <=> rows[l] # Nothing
<1>1. rows[l] \in Row \cup {Nothing}
  BY DEF WriterInv, TableInv
<1> QED BY <1>1, LifecycleAssumption DEF LifeOf, Life!Live

LEMMA FreeIsFree ==
    ASSUME WriterInv, NEW l \in Leases, NEW start, Free(l, start)
    PROVE  Life!Free(l, start)
<1> SUFFICES ASSUME NEW m \in Leases \ {l}, Life!Live(m) PROVE LifeOf[m].startDate # start
  BY DEF Life!Free
<1> QED BY LifeOfRow DEF Free

LEMMA InsertSigns ==
    ASSUME WriterInv, NEW w \in Workers, Insert(w)
    PROVE  UNCHANGED <<LifeOf, ends>> \/ \E l \in Leases : Life!Sign(l)
<1>1. CASE UNCHANGED <<rows, ends>>
  BY <1>1 DEF Insert, LifeOf
<1>2. CASE ~UNCHANGED <<rows, ends>>
  <2>1. PICK l \in Leases \ deleted :
           /\ rows[l] = Nothing /\ Free(l, job[w].row.startDate)
           /\ rows' = [rows EXCEPT ![l] = job[w].row] /\ UNCHANGED deleted
           /\ HasHad(l, job[w].row.endDate)
    BY <1>2 DEF Insert
  <2>2. /\ job[w].row \in Row
        /\ job[w].row.startDate < job[w].row.endDate
        /\ job[w].row.termination = NoDate
    BY DEF Insert, WriterInv, WorkerInv
  <2>3. LifeOf[l] = Unsigned
    BY <2>1 DEF LifeOf
  <2>4. Life!Free(l, job[w].row.startDate)
    BY <2>1, FreeIsFree
  <2>5. LifeOf' = [LifeOf EXCEPT ![l] = job[w].row]
    BY <2>1, <2>2, LifecycleAssumption DEF LifeOf, WriterInv, TableInv
  <2>6. Life!Sign(l)
    <3>1. job[w].row \in Life!Row
      BY <2>2 DEF Row, Life!Row
    <3>2. Life!Take(l, job[w].row)
      BY <2>1, <2>5 DEF Life!Take, HasHad
    <3> QED BY <2>2, <2>3, <2>4, <3>1, <3>2 DEF Life!Sign
  <2> QED BY <2>6
<1> QED BY <1>1, <1>2

LEMMA WriteColumnsWrites ==
    ASSUME WriterInv, NEW w \in Workers, WriteColumns(w)
    PROVE  UNCHANGED <<LifeOf, ends>> \/ \E l \in Leases : Life!Amend(l) \/ Life!Extend(l) \/ Life!Terminate(l)
<1>1. CASE UNCHANGED <<rows, ends>>
  BY <1>1 DEF WriteColumns, LifeOf
<1>2. CASE ~UNCHANGED <<rows, ends>>
  <2> DEFINE l == job[w].id
             row == With(rows[l], Change(w))
  <2>1. /\ at[w] = "write" /\ l \in Leases /\ UNCHANGED deleted
        /\ job[w].op \in {"update", "extend", "terminate"}
    BY <1>2 DEF WriteColumns, WriterInv, WorkerInv
  <2>2. /\ rows[l] # Nothing /\ rows' = [rows EXCEPT ![l] = row]
        /\ rows'[l] # Nothing => HasHad(l, rows'[l].endDate)
    BY <1>2 DEF WriteColumns, Updated
  <2>3. rows[l] \in Row
    BY <2>1, <2>2 DEF WriterInv, TableInv
  <2>4. row \in Row
    BY <2>1, <2>3, WithIsRow
  <2>5. Life!Live(l) /\ LifeOf[l] = rows[l]
    BY <2>1, <2>2, LifeOfRow
  <2>6. LifeOf' = [LifeOf EXCEPT ![l] = row]
    <3> HIDE DEF l, row
    <3> QED BY <2>1, <2>2, <2>4, LifecycleAssumption DEF LifeOf, WriterInv, TableInv
  <2>7. Life!Write(l, Change(w))
    <3>1. row = Life!With(LifeOf[l], Change(w))
      BY <2>5 DEF With, Life!With
    <3>2. HasHad(l, row.endDate)
      <4> HIDE DEF row, l
      <4> QED BY <2>1, <2>2, <2>4, LifecycleAssumption DEF WriterInv, TableInv
    <3>3. Life!Take(l, row)
      BY <2>6, <3>2 DEF Life!Take, HasHad
    <3> QED BY <3>1, <3>3 DEF Life!Write
  <2>8. CASE job[w].op = "update"
    <3>1. Change(w) = job[w].change /\ Change(w) \in Changes
      BY <2>1, <2>8 DEF Change, WriterInv, WorkerInv
    <3>2. Free(l, row.startDate)
      <4>1. Updated(l, w)[l] = row
        BY <2>1, <2>2 DEF Updated, WriterInv, TableInv
      <4> QED BY <1>2, <2>2, <2>4, <4>1, LifecycleAssumption DEF WriteColumns
    <3>3. Life!Free(l, Life!With(LifeOf[l], Change(w)).startDate)
      <4>1. Life!Free(l, row.startDate)
        BY <2>1, <3>2, FreeIsFree
      <4> QED BY <2>5, <4>1 DEF With, Life!With
    <3>4. Life!Amend(l)
      BY <2>5, <2>7, <3>1, <3>3 DEF Life!Amend
    <3> QED BY <2>1, <3>4
  <2>9. CASE job[w].op = "extend"
    <3>1. Change(w) = [endDate |-> job[w].date] /\ job[w].date \in Days
      BY <2>1, <2>9 DEF Change, WriterInv, WorkerInv
    <3>2. seen[w].endDate \in ends[l] /\ job[w].date > seen[w].endDate
      BY <2>1, <2>9 DEF WriterInv, WorkerInv
    <3>3. Life!Extend(l)
      BY <2>5, <2>7, <3>1, <3>2 DEF Life!Extend
    <3> QED BY <2>1, <3>3
  <2>10. CASE job[w].op = "terminate"
    <3> DEFINE end == IF job[w].date < seen[w].endDate THEN job[w].date ELSE seen[w].endDate
    <3>1. job[w].date \in Days /\ seen[w].endDate \in ends[l]
      BY <2>1, <2>10 DEF WriterInv, WorkerInv
    <3>2. Change(w) = [status |-> "terminated", endDate |-> end, termination |-> job[w].date]
      BY <2>10 DEF Change
    <3>3. Life!Terminate(l)
      BY <2>5, <2>7, <3>1, <3>2 DEF Life!Terminate
    <3> QED BY <2>1, <3>3
  <2> QED BY <2>1, <2>8, <2>9, <2>10
<1> QED BY <1>1, <1>2

LEMMA RemoveBuries ==
    ASSUME WriterInv, NEW w \in Workers, Remove(w)
    PROVE  UNCHANGED <<LifeOf, ends>> \/ \E l \in Leases : Life!Bury(l)
<1> DEFINE l == job[w].id
<1>1. /\ l \in Leases
      /\ rows' = [rows EXCEPT ![l] = Nothing]
      /\ deleted' = IF rows[l] = Nothing THEN deleted ELSE deleted \cup {l}
      /\ UNCHANGED ends
  BY DEF Remove, WriterInv, WorkerInv
<1> HIDE DEF l
<1>2. CASE rows[l] = Nothing
  <2>1. rows' = rows /\ deleted' = deleted
    BY <1>1, <1>2 DEF WriterInv, TableInv
  <2> QED BY <1>1, <2>1 DEF LifeOf
<1>3. CASE rows[l] # Nothing
  <2>1. Life!Live(l)
    BY <1>1, <1>3, LifeOfRow
  <2>2. LifeOf' = [LifeOf EXCEPT ![l] = Gone]
    BY <1>1, <1>3 DEF LifeOf, WriterInv, TableInv
  <2>3. Life!Bury(l)
    BY <1>1, <2>1, <2>2 DEF Life!Bury
  <2> QED BY <1>1, <2>3
<1> QED BY <1>2, <1>3

\* Any interleaving of the requests is, for the leases and the end dates they have
\* had, a behaviour of LeaseLife.
THEOREM LeasesLiveAsPromised == Spec => LeasesLive
<1>1. Init => Life!LifeInit
  BY DEF Init, LifeOf, Life!LifeInit
<1>2. WriterInv /\ [Next]_vars => [Life!LifeNext]_<<LifeOf, ends>>
  <2> SUFFICES ASSUME WriterInv, [Next]_vars PROVE Life!LifeNext \/ UNCHANGED <<LifeOf, ends>>
    OBVIOUS
  <2>1. ASSUME NEW w \in Workers, Insert(w) \/ WriteColumns(w) \/ Remove(w)
        PROVE  Life!LifeNext \/ UNCHANGED <<LifeOf, ends>>
    BY <2>1, InsertSigns, WriteColumnsWrites, RemoveBuries DEF Life!LifeNext
  <2>2. ASSUME UNCHANGED <<rows, deleted, ends>> PROVE UNCHANGED <<LifeOf, ends>>
    BY <2>2 DEF LifeOf
  <2>3. ASSUME NEW w \in Workers,
               \/ Begin(w) \/ Load(w) \/ Reload(w) \/ Forget(w) \/ Store(w)
               \/ Lookup(w) \/ Query(w) \/ Abandon(w)
        PROVE  UNCHANGED <<rows, deleted, ends>>
    BY <2>3 DEF Begin, Load, Reload, Forget, Store, Lookup, Query, Abandon
  <2>4. ASSUME NEW key \in Keys, Expire(key) PROVE UNCHANGED <<rows, deleted, ends>>
    BY <2>4 DEF Expire
  <2>5. CASE UNCHANGED vars
    BY <2>2, <2>5 DEF vars
  <2> QED BY <2>1, <2>2, <2>3, <2>4, <2>5 DEF Next, Serve
<1> QED BY <1>1, <1>2, InitWriterInv, NextWriterInv, PTL DEF Spec, LeasesLive, Life!LifeSpec

-----------------------------------------------------------------------------
(* Types, those of what a worker holds and of the caches included.          *)

\* The request that brings a worker where it stands, and what it has read there.
Fits(w) ==
    /\ at[w] = "insert" => job[w].op = "create"
    /\ at[w] = "remove" => job[w].op = "delete"
    /\ at[w] \in {"lookup", "query"} => job[w].op = "read"
    /\ at[w] = "reload" => job[w].op \in {"update", "extend", "terminate"}
    /\ at[w] = "forget" =>
          /\ job[w].op \in {"update", "delete"}
          /\ job[w].op = "update" => seen[w] \in [id : Leases, row : Row]

Typed(w) ==
    /\ at[w] \in Steps
    /\ IF at[w] = "idle" THEN job[w] = Nothing
                         ELSE job[w] \in WriteRequests \cup ReadRequests
    /\ at[w] = "store" =>
          IF job[w].op = "read" THEN seen[w] \in Values(job[w].key)
                                ELSE seen[w] \in [id : Leases, row : Row]
    /\ Fits(w)

CacheTyped ==
    /\ DOMAIN cache = Keys
    /\ \A key \in Keys : cache[key] = Nothing \/ cache[key] \in Values(key)

TypeInv ==
    /\ WriterInv
    /\ at \in [Workers -> Steps]
    /\ deleted \subseteq Leases
    /\ CacheTyped
    /\ writes \in 0..MaxWrites
    /\ \A w \in Workers : Typed(w)

LEMMA TypeInvTypes == TypeInv => TypeOK
  BY DEF TypeInv, TypeOK, WriterInv, TableInv, CacheTyped, Typed

LEMMA InitTypeInv == Init => TypeInv
<1> SUFFICES ASSUME Init PROVE TypeInv
  OBVIOUS
<1>1. WriterInv
  BY InitWriterInv
<1>2. at \in [Workers -> Steps] /\ deleted \subseteq Leases /\ CacheTyped
  BY DEF Init, Steps, CacheTyped
<1>3. writes \in 0..MaxWrites
  BY LifecycleAssumption DEF Init
<1>4. \A w \in Workers : Typed(w)
  BY DEF Init, Typed, Fits, Steps
<1> QED BY <1>1, <1>2, <1>3, <1>4 DEF TypeInv

\* What the database answers for a key a reader may ask for.
LEMMA ViewTyped ==
    ASSUME TypeInv, NEW key \in ReadKeys, View(key) # Nothing
    PROVE  View(key) \in Values(key)
<1>1. CASE key \in [kind : ReadKinds \cap {"details"}, id : Leases]
  <2>1. key.kind = "details" /\ key.id \in Leases
    BY <1>1
  <2>2. View(key) = rows[key.id]
    BY <2>1 DEF View
  <2> QED BY <2>1, <2>2 DEF Values, TypeInv, WriterInv, TableInv
<1>2. CASE key \in [kind : ReadKinds \cap {"tenant", "landlord"}]
  <2>1. key.kind \in {"tenant", "landlord"}
    BY <1>2
  <2>2. \A m \in Leases : rows[m] # Nothing => rows[m] \in Row
    BY DEF TypeInv, WriterInv, TableInv
  <2>3. CASE key.kind = "tenant"
    <3>1. View(key) = {[id |-> l, row |-> rows[l]] :
                         l \in {m \in Leases : rows[m] # Nothing /\ rows[m].status = "active"}}
      BY <2>3 DEF View, List
    <3> QED BY <2>2, <2>3, <3>1 DEF Values
  <2>4. CASE key.kind = "landlord"
    <3>1. View(key) = {[id |-> l, row |-> rows[l]] :
                         l \in {m \in Leases : rows[m] # Nothing
                                               /\ rows[m].status \in {"pending", "active"}}}
      BY <2>4 DEF View, List
    <3> QED BY <2>2, <2>4, <3>1 DEF Values
  <2> QED BY <2>1, <2>3, <2>4
<1> QED BY <1>1, <1>2 DEF ReadKeys

\* A step of worker w that leaves it with its type keeps all types.
LEMMA StepKeepsTypes ==
    ASSUME TypeInv, WriterInv', NEW w \in Workers, Only(w), at' \in [Workers -> Steps],
           deleted' \subseteq Leases, CacheTyped', writes' \in 0..MaxWrites, Typed(w)'
    PROVE  TypeInv'
<1>1. ASSUME NEW v \in Workers \ {w} PROVE Typed(v)'
  BY <1>1 DEF TypeInv, Typed, Fits, Only
<1> QED BY <1>1 DEF TypeInv

LEMMA AnswerTyped ==
    ASSUME TypeInv, NEW w \in Workers, Answer(w)
    PROVE  Only(w) /\ at' \in [Workers -> Steps] /\ Typed(w)'
<1>1. at'[w] = "idle" /\ job'[w] = Nothing /\ at' \in [Workers -> Steps]
  BY DEF Answer, Go, TypeInv, WriterInv, Steps
<1> QED BY <1>1, AnswerKeeps DEF TypeInv, Typed, Fits, Steps

LEMMA BeginTyped ==
    ASSUME TypeInv, NEW w \in Workers, Begin(w)
    PROVE  Only(w) /\ at' \in [Workers -> Steps] /\ Typed(w)' /\ writes' \in 0..MaxWrites
<1>1. PICK request \in WriteRequests \cup ReadRequests :
         /\ job' = [job EXCEPT ![w] = request]
         /\ at' = [at EXCEPT ![w] = FirstStep(request.op)]
         /\ IF request.op = "read" THEN UNCHANGED writes
                                   ELSE writes < MaxWrites /\ writes' = writes + 1
  BY DEF Begin, Go
<1>2. /\ job'[w] = request /\ at'[w] = FirstStep(request.op)
      /\ Only(w)
  BY <1>1 DEF Begin, TypeInv, WriterInv, Only
<1>3. /\ request.op \in {"create", "update", "extend", "terminate", "delete", "read"}
  BY DEF WriteRequests, ReadRequests
<1>4. /\ FirstStep(request.op) \in Steps \ {"idle", "store", "reload", "forget", "query"}
      /\ FirstStep(request.op) = "insert" => request.op = "create"
      /\ FirstStep(request.op) = "remove" => request.op = "delete"
      /\ FirstStep(request.op) = "lookup" => request.op = "read"
  BY <1>3 DEF FirstStep, Steps
<1>5. Typed(w)'
  BY <1>2, <1>4 DEF Typed, Fits
<1>6. at' \in [Workers -> Steps] /\ writes' \in 0..MaxWrites
  BY <1>1, <1>4, LifecycleAssumption DEF TypeInv
<1> QED BY <1>2, <1>5, <1>6

LEMMA StepTyped ==
    ASSUME TypeInv, WriterInv', NEW w \in Workers, Begin(w) \/ Serve(w) \/ Abandon(w)
    PROVE  TypeInv'
<1>1. CASE Begin(w)
  BY <1>1, BeginTyped, StepKeepsTypes DEF Begin, TypeInv, CacheTyped
<1> DEFINE Quiet == UNCHANGED <<cache, writes>>
<1>2. ASSUME Quiet, deleted' \subseteq Leases, Answer(w)
      PROVE  TypeInv'
  BY <1>2, AnswerTyped, StepKeepsTypes DEF TypeInv, CacheTyped
<1>3. ASSUME Quiet, deleted' \subseteq Leases, NEW step \in Steps, Go(w, step),
             job' = job, DOMAIN seen' = Workers,
             \A v \in Workers \ {w} : seen'[v] = seen[v],
             Typed(w)'
      PROVE  TypeInv'
  <2>1. Only(w) /\ at' \in [Workers -> Steps]
    BY <1>3 DEF Go, Only, TypeInv, WriterInv
  <2> QED BY <1>3, <2>1, StepKeepsTypes DEF TypeInv, CacheTyped
<1>4. DOMAIN at = Workers /\ DOMAIN seen = Workers /\ deleted \subseteq Leases /\ Typed(w)
      /\ WorkerInv(w)
  BY DEF TypeInv, WriterInv
<1>5. CASE Insert(w)
  <2>1. CASE Answer(w)
    BY <1>2, <1>4, <1>5, <2>1 DEF Insert
  <2>2. ASSUME NEW l \in Leases \ deleted, See(w, [id |-> l, row |-> job[w].row]),
               Go(w, "store"), job' = job
        PROVE  TypeInv'
    <3>1. job[w].op = "create" /\ job[w] \in WriteRequests \cup ReadRequests
          /\ job[w].row \in Row
      BY <1>4, <1>5 DEF Insert, Typed, Fits, WorkerInv
    <3>2. at'[w] = "store" /\ seen'[w] = [id |-> l, row |-> job[w].row] /\ job'[w] = job[w]
      BY <1>4, <2>2 DEF Go, See
    <3>3. Typed(w)'
      BY <3>1, <3>2 DEF Typed, Fits, Steps
    <3> QED BY <1>3, <1>4, <1>5, <2>2, <3>3 DEF Insert, See, Steps
  <2> QED BY <1>5, <2>1, <2>2 DEF Insert
<1>6. CASE Load(w)
  <2>1. CASE Answer(w)
    BY <1>2, <1>4, <1>6, <2>1 DEF Load
  <2>2. CASE Go(w, "write") /\ See(w, rows[job[w].id]) /\ job' = job
    <3>1. at'[w] = "write" /\ job'[w] = job[w] /\ at[w] = "load"
      BY <1>4, <1>6, <2>2 DEF Go, Load
    <3>2. Typed(w)'
      BY <1>4, <3>1 DEF Typed, Fits, Steps
    <3> QED BY <1>3, <1>4, <1>6, <2>2, <3>2 DEF Load, See, Steps
  <2> QED BY <1>6, <2>1, <2>2 DEF Load
<1>7. CASE WriteColumns(w)
  <2>1. CASE Answer(w)
    BY <1>2, <1>4, <1>7, <2>1 DEF WriteColumns
  <2>2. CASE Go(w, "reload") /\ UNCHANGED <<job, seen>>
    <3>1. at'[w] = "reload" /\ job'[w] = job[w] /\ at[w] = "write"
      BY <1>4, <1>7, <2>2 DEF Go, WriteColumns
    <3>2. Typed(w)'
      BY <1>4, <3>1 DEF Typed, Fits, Steps, WorkerInv
    <3> QED BY <1>3, <1>4, <1>7, <2>2, <3>2 DEF WriteColumns, Steps
  <2> QED BY <1>7, <2>1, <2>2 DEF WriteColumns
<1>8. CASE Reload(w)
  <2>1. CASE Answer(w)
    BY <1>2, <1>4, <1>8, <2>1 DEF Reload
  <2>2. CASE ~Answer(w)
    <3>1. /\ rows[job[w].id] # Nothing /\ job[w].op = "update" /\ at[w] = "reload"
          /\ See(w, [id |-> job[w].id, row |-> rows[job[w].id]])
          /\ Go(w, "forget") /\ job' = job
      BY <1>8, <2>2 DEF Reload
    <3>2. job[w] \in WriteRequests \cup ReadRequests
      BY <1>4, <3>1 DEF Typed
    <3>3. job[w].id \in Leases
      BY <3>1, <3>2 DEF WriteRequests, ReadRequests
    <3>4. rows[job[w].id] \in Row
      BY <3>1, <3>3 DEF TypeInv, WriterInv, TableInv
    <3>5. /\ at'[w] = "forget" /\ job'[w] = job[w]
          /\ seen'[w] = [id |-> job[w].id, row |-> rows[job[w].id]]
      BY <1>4, <3>1 DEF Go, See
    <3>6. Typed(w)'
      BY <3>1, <3>2, <3>3, <3>4, <3>5 DEF Typed, Fits, Steps
    <3> QED BY <1>3, <1>4, <1>8, <3>1, <3>6 DEF Reload, See, Steps
  <2> QED BY <2>1, <2>2
<1>9. CASE Remove(w)
  <2>1. /\ at[w] = "remove" /\ Go(w, "forget") /\ UNCHANGED <<cache, job, seen, writes>>
        /\ deleted' \subseteq Leases
    BY <1>4, <1>9 DEF Remove, WorkerInv
  <2>2. at'[w] = "forget" /\ job'[w] = job[w]
    BY <1>4, <2>1 DEF Go
  <2>3. Typed(w)'
    BY <1>4, <2>1, <2>2 DEF Typed, Fits, Steps
  <2> QED BY <1>3, <1>4, <2>1, <2>3 DEF Steps
<1>10. CASE Forget(w)
  <2>1. /\ at[w] = "forget" /\ UNCHANGED <<rows, deleted, writes>>
        /\ job[w].op \in {"update", "delete"}
        /\ job[w] \in WriteRequests \cup ReadRequests
    BY <1>4, <1>10 DEF Forget, Typed, Fits
  <2>2. CacheTyped'
    <3>1. CASE UNCHANGED cache
      BY <3>1 DEF TypeInv, CacheTyped
    <3>2. CASE cache' = [cache EXCEPT ![EntityKey(job[w].id)] = Nothing]
      BY <3>2 DEF TypeInv, CacheTyped
    <3> QED BY <1>10, <3>1, <3>2 DEF Forget
  <2>3. CASE Answer(w)
    BY <1>4, <2>1, <2>2, <2>3, AnswerTyped, StepKeepsTypes DEF TypeInv
  <2>4. CASE ~Answer(w)
    <3>1. job[w].op = "update" /\ Go(w, "store") /\ UNCHANGED <<job, seen>>
      BY <1>10, <2>4 DEF Forget
    <3>2. /\ at'[w] = "store" /\ job'[w] = job[w] /\ seen'[w] = seen[w]
          /\ Only(w) /\ at' \in [Workers -> Steps]
      BY <1>4, <3>1 DEF Go, Only, TypeInv, WriterInv, Steps
    <3>3. seen[w] \in [id : Leases, row : Row]
      BY <1>4, <2>1, <3>1 DEF Typed, Fits
    <3>4. Typed(w)'
      BY <2>1, <3>1, <3>2, <3>3 DEF Typed, Fits, Steps
    <3> QED BY <1>4, <2>1, <2>2, <3>2, <3>4, StepKeepsTypes DEF TypeInv
  <2> QED BY <2>3, <2>4
<1>11. CASE Store(w)
  <2>1. /\ at[w] = "store" /\ UNCHANGED <<rows, deleted, writes>> /\ Answer(w)
        /\ job[w] \in WriteRequests \cup ReadRequests
    BY <1>4, <1>11 DEF Store, Typed
  <2>2. CacheTyped'
    <3>1. CASE UNCHANGED cache
      BY <3>1 DEF TypeInv, CacheTyped
    <3>2. CASE job[w].op = "read" /\ cache' = [cache EXCEPT ![job[w].key] = seen[w]]
      <4>1. seen[w] \in Values(job[w].key)
        BY <1>4, <2>1, <3>2 DEF Typed
      <4> QED BY <3>2, <4>1 DEF TypeInv, CacheTyped
    <3>3. CASE job[w].op # "read" /\ cache' = [cache EXCEPT ![EntityKey(seen[w].id)] = seen[w].row]
      <4>1. seen[w].row \in Row
        BY <1>4, <2>1, <3>3 DEF Typed
      <4>2. seen[w].row \in Values(EntityKey(seen[w].id))
        BY <4>1 DEF Values, EntityKey
      <4> QED BY <3>3, <4>2 DEF TypeInv, CacheTyped
    <3> QED BY <1>11, <3>1, <3>2, <3>3 DEF Store
  <2> QED BY <1>4, <2>1, <2>2, AnswerTyped, StepKeepsTypes DEF TypeInv
<1>12. CASE Lookup(w)
  <2>1. CASE Answer(w)
    BY <1>2, <1>4, <1>12, <2>1 DEF Lookup
  <2>2. CASE Go(w, "query") /\ UNCHANGED <<job, seen>>
    <3>1. at'[w] = "query" /\ job'[w] = job[w] /\ at[w] = "lookup"
      BY <1>4, <1>12, <2>2 DEF Go, Lookup
    <3>2. Typed(w)'
      BY <1>4, <3>1 DEF Typed, Fits, Steps
    <3> QED BY <1>3, <1>4, <1>12, <2>2, <3>2 DEF Lookup, Steps
  <2> QED BY <1>12, <2>1, <2>2 DEF Lookup
<1>13. CASE Query(w)
  <2>1. CASE Answer(w)
    BY <1>2, <1>4, <1>13, <2>1 DEF Query
  <2>2. CASE ~Answer(w)
    <3>1. /\ View(job[w].key) # Nothing /\ See(w, View(job[w].key))
          /\ Go(w, "store") /\ job' = job /\ at[w] = "query"
      BY <1>13, <2>2 DEF Query
    <3>2. job[w].op = "read" /\ job[w] \in WriteRequests \cup ReadRequests
      BY <1>4, <3>1 DEF Typed, Fits
    <3>3. job[w].key \in ReadKeys
      BY <3>2 DEF WriteRequests, ReadRequests
    <3>4. View(job[w].key) \in Values(job[w].key)
      BY <3>1, <3>3, ViewTyped
    <3>5. at'[w] = "store" /\ job'[w] = job[w] /\ seen'[w] = View(job[w].key)
      BY <1>4, <3>1 DEF Go, See
    <3>6. Typed(w)'
      BY <3>2, <3>4, <3>5 DEF Typed, Fits, Steps
    <3> QED BY <1>3, <1>4, <1>13, <3>1, <3>6 DEF Query, See, Steps
  <2> QED BY <2>1, <2>2
<1>14. CASE Abandon(w)
  BY <1>2, <1>4, <1>14 DEF Abandon
<1> QED BY <1>1, <1>5, <1>6, <1>7, <1>8, <1>9, <1>10, <1>11, <1>12, <1>13, <1>14 DEF Serve

LEMMA NextTypeInv == TypeInv /\ [Next]_vars => TypeInv'
<1> SUFFICES ASSUME TypeInv, [Next]_vars PROVE TypeInv'
  OBVIOUS
<1>1. WriterInv'
  BY NextWriterInv DEF TypeInv
<1>2. ASSUME NEW w \in Workers, Begin(w) \/ Serve(w) \/ Abandon(w) PROVE TypeInv'
  BY <1>1, <1>2, StepTyped
<1>3. ASSUME NEW key \in Keys, Expire(key) PROVE TypeInv'
  <2>1. CacheTyped'
    BY <1>3 DEF Expire, TypeInv, CacheTyped
  <2>2. \A w \in Workers : Typed(w)'
    BY <1>3 DEF Expire, TypeInv, Typed, Fits
  <2> QED BY <1>1, <1>3, <2>1, <2>2 DEF Expire, TypeInv
<1>4. CASE UNCHANGED vars
  BY <1>1, <1>4 DEF vars, TypeInv, CacheTyped, Typed, Fits
<1> QED BY <1>2, <1>3, <1>4 DEF Next

\* Rows, requests, what workers hold and what Redis holds under each key keep their
\* types: a list under the key of a list, a row under the key of a row.
THEOREM TypeCorrect == Spec => []TypeOK
BY InitTypeInv, NextTypeInv, TypeInvTypes, PTL DEF Spec

=============================================================================
