--------------------------- MODULE ServiceSteps ---------------------------
(***************************************************************************)
(* The steps the methods of the services are made of.  A method is a       *)
(* sequence of awaited operations on one row of its table and on the Redis *)
(* keys whose value that row shapes, with the tests between them;          *)
(* CachedServices gives each step its meaning.                             *)
(***************************************************************************)
EXTENDS Sequences

Step(do) == <<[do |-> do]>>
Keyed(do, key) == <<[do |-> do, key |-> key]>>
Branch(do, steps) == <<[do |-> do, steps |-> steps]>>
Load(must, full) == <<[do |-> "find", must |-> must, full |-> full]>>

\* Queries.  A row is found with its relations (full) or without them (bare);
\* OrFail throws when there is none.
Find == Load(FALSE, TRUE)
FindOrFail == Load(TRUE, TRUE)
FindBare == Load(FALSE, FALSE)
FindBareOrFail == Load(TRUE, FALSE)
Exists == Step("exists")

\* Statements: an INSERT the table may refuse, an UPDATE of the row if it is
\* there, an upsert, typeorm's save of a loaded entity (which inserts a row that is
\* gone), a DELETE, one that may match or not, a soft delete and its undoing.
Insert == Step("insert")
Write == Step("write")
Upsert == Step("upsert")
SaveRow == Step("saveRow")
Remove == Step("remove")
MayRemove == Step("mayRemove")
SoftRemove == Step("softRemove")
Restore == Step("restore")

\* Redis commands on one key.
Save(key) == Keyed("save", key)
SaveOrForget(key) == Keyed("saveOrForget", key)
Forget(key) == Keyed("forget", key)

\* Redis first; on a miss the other steps.
ReadFirst(key, steps) == <<[do |-> "lookup", key |-> key, steps |-> steps]>>

\* A query whose answer only the repository sees: the steps are for a row it finds.
IfThere(steps) == Branch("ifThere", steps)

\* What the code tests, without awaiting anything: whether it has found the row,
\* whether the copy carries the relations the code reads.
IfFound(steps) == Branch("ifFound", steps)
IfAbsent(steps) == Branch("ifAbsent", steps)
Maybe(steps) == Branch("maybe", steps)
NeedFound == Step("needFound")
NeedRelations == Step("needRelations")
NoRows == Step("noRows")
Fail == Step("fail")

\* One row: stored unless there is none.  A list: the empty one is stored too.
ReadThrough(key) == ReadFirst(key, Find \o IfFound(Save(key)))
ReadOrFail(key) == ReadFirst(key, FindOrFail \o Save(key))
ReadAll(key) == ReadFirst(key, Find \o Save(key))

\* Whether a method writes, and whether it answers the row as it is afterwards.
Method(steps, writes, answers) ==
    [steps |-> steps, writes |-> writes, answers |-> answers]
Reads(steps)   == Method(steps, FALSE, FALSE)
Creates(steps) == Method(steps, TRUE, FALSE)
Updates(steps) == Method(steps, TRUE, TRUE)
Changes(steps) == Method(steps, TRUE, FALSE)
Deletes(steps) == Method(steps, TRUE, FALSE)

=============================================================================
