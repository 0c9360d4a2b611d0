--------------------------- MODULE CachedServices ---------------------------
(***************************************************************************)
(* The requests of one service, served by concurrent workers, on one row   *)
(* of its table and a Redis key whose value that row shapes.  Between two  *)
(* awaited steps of a request others run, and the copy it holds grows old. *)
(* Redis may refuse any command and forget a key at any time; a request    *)
(* may end at any step (a database error, ensureConnected of RedisCache    *)
(* throwing, the process dying).  A key not considered is always missed.   *)
(*                                                                         *)
(* Rows and copies have no columns: a copy is of the row as it is, or of   *)
(* an older state of it.  Every change of the row changes what each key    *)
(* should hold.                                                            *)
(***************************************************************************)
EXTENDS AccountMethods, PropertyMethods, Functions, Naturals

Services ==
    [userService |-> userService,
     userRoleService |-> userRoleService,
     kycProfileService |-> kycProfileService,
     kycRequirementService |-> kycRequirementService,
     accessPolicyService |-> accessPolicyService,
     permissionService |-> permissionService,
     rolePermissionService |-> rolePermissionService,
     roleService |-> roleService,
     paymentProviderConfigService |-> paymentProviderConfigService,
     paymentProviderService |-> paymentProviderService,
     catalogAddonService |-> catalogAddonService,
     catalogCategoryService |-> catalogCategoryService,
     catalogItemPricingService |-> catalogItemPricingService,
     catalogService |-> catalogService,
     clientAppService |-> clientAppService,
     clientAppConfigService |-> clientAppConfigService,
     organizationService |-> organizationService,
     organizationTypeService |-> organizationTypeService,
     organizationUserRoleService |-> organizationUserRoleService,
     addressComponentService |-> addressComponentService,
     locationAddressComponentService |-> locationAddressComponentService,
     locationService |-> locationService,
     propertyAddressService |-> propertyAddressService,
     propertyOwnerService |-> propertyOwnerService,
     propertyRequestService |-> propertyRequestService,
     propertyService |-> propertyService,
     propertyStaffService |-> propertyStaffService,
     propertyUnitTenantService |-> propertyUnitTenantService,
     propertyUnitService |-> propertyUnitService,
     propertyLeasePaymentService |-> propertyLeasePaymentService,
     propertyLeasePaymentTypeService |-> propertyLeasePaymentTypeService,
     propertyLeaseAgreementService |-> propertyLeaseAgreementService]

CONSTANTS
    Workers,        \* requests served at a time
    Watched,        \* the services considered
    Idle            \* no request

ASSUME ServicesAssumption ==
    /\ Watched \subseteq DOMAIN Services
    /\ \A s \in Watched : Idle \notin DOMAIN Services[s]

VARIABLES
    subject,   \* the service and its keys considered
    row,       \* the row: absent, there, or hidden (soft deleted)
    entry,     \* what Redis holds under each of these keys: no value or one copy
    method,    \* what each worker serves
    rest,      \* the steps it has still to take
    held,      \* the copy of the row, or of its absence, it holds
    standing   \* of a request that writes: "alone" until it has "changed" the row, or
               \* until somebody else has changed row or entries, or Redis not taken
               \* a command of its own ("disturbed")

vars == <<subject, row, entry, method, rest, held, standing>>

-----------------------------------------------------------------------------
Copy == [found : BOOLEAN, full : BOOLEAN, current : BOOLEAN]
NoCopy == [found |-> FALSE, full |-> FALSE, current |-> FALSE]
Aged(copy) == [copy EXCEPT !.current = FALSE]

Methods == Services[subject.service]

\* The steps of a method, those of its branches included.
Deeper(steps) == steps \cup UNION {Range(s.steps) : s \in {t \in steps : "steps" \in DOMAIN t}}
StepsOf(m) == Deeper(Deeper(Deeper(Range(m.steps))))

\* The keys a service looks up, or one of no interest if there are none.
LookedUp(s) ==
    {step.key : step \in {t \in UNION {StepsOf(Services[s][m]) : m \in DOMAIN Services[s]} :
                            t.do = "lookup"}}
KeySets(s) ==
    IF LookedUp(s) = {} THEN {{"unread"}} ELSE {{k} : k \in LookedUp(s)}

Subjects == UNION {[service : {s}, keys : KeySets(s)] : s \in Watched}

\* The methods that bear on a subject: those that write, and the readers of its keys.
Relevant ==
    [x \in Subjects |->
        {m \in DOMAIN Services[x.service] :
            \/ Services[x.service][m].writes
            \/ \E step \in StepsOf(Services[x.service][m]) :
                  "key" \in DOMAIN step /\ step.key \in x.keys}]

Init ==
    /\ subject \in Subjects
    /\ row \in {"absent", "there"}
    /\ entry = [k \in subject.keys |-> {}]
    /\ method = [w \in Workers |-> Idle]
    /\ rest = [w \in Workers |-> <<>>]
    /\ held = [w \in Workers |-> NoCopy]
    /\ standing = [w \in Workers |-> "alone"]

\* The steps to take: a command on a key not considered is passed over.
PassedOver(keys, step) ==
    step.do \in {"save", "saveOrForget", "forget"} /\ step.key \notin keys

Due(keys, steps) ==
    LET upTo[n \in 0..Len(steps)] ==
          IF n = 0 THEN <<>>
          ELSE IF PassedOver(keys, steps[n]) THEN upTo[n - 1]
          ELSE Append(upTo[n - 1], steps[n])
    IN  upTo[Len(steps)]

Begin(w) ==
    /\ method[w] = Idle
    /\ \E m \in Relevant[subject] :
          /\ method' = [method EXCEPT ![w] = m]
          /\ rest' = [rest EXCEPT ![w] = Due(subject.keys, Methods[m].steps)]
    /\ UNCHANGED <<subject, row, entry, held, standing>>

At(w, do) == rest[w] # <<>> /\ Head(rest[w]).do = do
This(w) == Head(rest[w])
GoOn(w) == rest' = [rest EXCEPT ![w] = Tail(@)]
Enter(w, steps) == rest' = [rest EXCEPT ![w] = Due(subject.keys, steps) \o Tail(@)]
Hold(w, copy) == held' = [held EXCEPT ![w] = copy]

\* Mutated: the copy stays with the worker.
EndHolding(w) ==
    /\ method' = [method EXCEPT ![w] = Idle]
    /\ rest' = [rest EXCEPT ![w] = <<>>]
    /\ standing' = [standing EXCEPT ![w] = "alone"]
    /\ UNCHANGED <<subject, row, entry, held>>

\* The answer, or an error: the request is over.
End(w) ==
    /\ method' = [method EXCEPT ![w] = Idle]
    /\ rest' = [rest EXCEPT ![w] = <<>>]
    /\ Hold(w, NoCopy)
    /\ standing' = [standing EXCEPT ![w] = "alone"]
    /\ UNCHANGED <<subject, row, entry>>

Present == row = "there"

\* Mutated: nothing found is always an error.
ThrowsOnNothing(w) ==
    \/ (At(w, "find") \/ At(w, "exists")) /\ ~Present
    \/ At(w, "insert") /\ row # "absent"
    \/ At(w, "needFound") /\ ~held[w].found
    \/ At(w, "needRelations") /\ ~held[w].full
    \/ At(w, "fail")

\* The step of a worker that throws as things are.
Throws(w) ==
    \/ At(w, "find") /\ This(w).must /\ ~Present
    \/ At(w, "exists") /\ ~Present
    \/ At(w, "insert") /\ row # "absent"
    \/ At(w, "needFound") /\ ~held[w].found
    \/ At(w, "needRelations") /\ ~held[w].full
    \/ At(w, "fail")

Throw(w) == Throws(w) /\ End(w)

-----------------------------------------------------------------------------
(* Queries and tests.                                                      *)

\* Mutated: an entity that was loaded before is not loaded again.
QueryOnce(w) ==
    /\ At(w, "find") /\ ~Throws(w)
    /\ Hold(w, IF held[w].found THEN held[w]
               ELSE [found |-> Present, full |-> Present /\ This(w).full, current |-> TRUE])
    /\ GoOn(w)
    /\ UNCHANGED <<subject, row, entry, method, standing>>

Query(w) ==
    /\ At(w, "find") /\ ~Throws(w)
    /\ Hold(w, [found |-> Present, full |-> Present /\ This(w).full, current |-> TRUE])
    /\ GoOn(w)
    /\ UNCHANGED <<subject, row, entry, method, standing>>

Check(w) ==
    /\ At(w, "exists") \/ At(w, "needFound") \/ At(w, "needRelations")
    /\ ~Throws(w)
    /\ GoOn(w)
    /\ UNCHANGED <<subject, row, entry, method, held, standing>>

Choose(w) ==
    /\ \/ At(w, "ifThere") /\ IF Present THEN Enter(w, This(w).steps) ELSE GoOn(w)
       \/ At(w, "ifFound") /\ IF held[w].found THEN Enter(w, This(w).steps) ELSE GoOn(w)
       \/ At(w, "ifAbsent") /\ IF held[w].found THEN GoOn(w) ELSE Enter(w, This(w).steps)
       \/ At(w, "maybe") /\ (Enter(w, This(w).steps) \/ GoOn(w))
    /\ UNCHANGED <<subject, row, entry, method, held, standing>>

\* organizationUserRoleService takes a miss for an empty list.
TakeNone(w) ==
    /\ At(w, "noRows")
    /\ Hold(w, [NoCopy EXCEPT !.current = ~Present])
    /\ GoOn(w)
    /\ UNCHANGED <<subject, row, entry, method, standing>>

-----------------------------------------------------------------------------
(* Statements.                                                             *)

Writing(w) == method[w] # Idle /\ Methods[method[w]].writes

\* Whoever else is to write, or has written, has company.
Joined(w) ==
    [v \in Workers |-> IF v # w /\ Writing(v) THEN "disturbed" ELSE standing[v]]

\* The row changes: what Redis and the workers hold is of the past, but for the
\* copy the statement leaves in its own worker's hands.
Alter(w, newRow, copy) ==
    /\ row' = newRow
    /\ entry' = [k \in subject.keys |-> {Aged(stored) : stored \in entry[k]}]
    /\ held' = [v \in Workers |-> IF v = w THEN copy ELSE Aged(held[v])]
    /\ standing' = [Joined(w) EXCEPT ![w] = IF @ = "alone" THEN "changed" ELSE @]

Change(w, newRow) == Alter(w, newRow, Aged(held[w]))

Matches(w) == UNCHANGED <<row, entry, held, standing>>

Written == [found |-> TRUE, full |-> TRUE, current |-> TRUE]

InsertRow(w) ==
    /\ At(w, "insert") /\ ~Throws(w)
    /\ Alter(w, "there", Written)
    /\ GoOn(w) /\ UNCHANGED <<subject, method>>

\* Mutated: the entity is saved, a row that is gone inserted.
UpdateRowBySave(w) ==
    /\ At(w, "write")
    /\ Change(w, "there")
    /\ GoOn(w) /\ UNCHANGED <<subject, method>>

\* repository.update: one UPDATE, no row no change, and nothing returned.
UpdateRow(w) ==
    /\ At(w, "write")
    /\ IF Present THEN Change(w, "there") ELSE Matches(w)
    /\ GoOn(w) /\ UNCHANGED <<subject, method>>

\* Both leave a row, there before or not: repository.save of a loaded entity
\* inserts one that has been deleted since.
UpsertRow(w) ==
    /\ At(w, "upsert") \/ At(w, "saveRow")
    /\ Change(w, "there")
    /\ GoOn(w) /\ UNCHANGED <<subject, method>>

RemoveRow(w) ==
    /\ \/ /\ At(w, "remove")
          /\ IF row = "absent" THEN Matches(w) ELSE Change(w, "absent")
       \/ /\ At(w, "mayRemove")
          /\ \/ Matches(w)
             \/ Present /\ Change(w, "absent")
       \/ /\ At(w, "softRemove")
          /\ IF Present THEN Change(w, "hidden") ELSE Matches(w)
    /\ GoOn(w) /\ UNCHANGED <<subject, method>>

RestoreRow(w) ==
    /\ At(w, "restore")
    /\ IF row = "hidden" THEN Change(w, "there") ELSE Matches(w)
    /\ GoOn(w) /\ UNCHANGED <<subject, method>>

-----------------------------------------------------------------------------
(* Redis commands.  An error of the command is logged and dropped; GET then *)
(* answers null, as for a key that is not there.                           *)

Lookup(w) ==
    /\ At(w, "lookup")
    /\ \/ Enter(w, This(w).steps) /\ UNCHANGED held
       \/ /\ This(w).key \in subject.keys
          /\ \E copy \in entry[This(w).key] : Hold(w, copy)
          /\ GoOn(w)
    /\ UNCHANGED <<subject, row, entry, method, standing>>

Put(w, copies) ==
    /\ entry' = [entry EXCEPT ![This(w).key] = copies]
    /\ standing' = IF entry' = entry THEN standing ELSE Joined(w)

Refused(w) ==
    /\ UNCHANGED entry
    /\ standing' = [standing EXCEPT ![w] = IF Writing(w) THEN "disturbed" ELSE @]

Store(w) ==
    /\ At(w, "save") \/ (At(w, "saveOrForget") /\ held[w].found)
    /\ Put(w, {held[w]}) \/ Refused(w)
    /\ GoOn(w) /\ UNCHANGED <<subject, row, method, held>>

\* Mutated: the key is built otherwise than the readers build it.
DeleteAnotherKey(w) ==
    /\ At(w, "forget") \/ (At(w, "saveOrForget") /\ ~held[w].found)
    /\ UNCHANGED <<entry, standing>> \/ Refused(w)
    /\ GoOn(w) /\ UNCHANGED <<subject, row, method, held>>

Delete(w) ==
    /\ At(w, "forget") \/ (At(w, "saveOrForget") /\ ~held[w].found)
    /\ Put(w, {}) \/ Refused(w)
    /\ GoOn(w) /\ UNCHANGED <<subject, row, method, held>>

\* Mutated: set without a lifetime.
ExpireNever(key) ==
    /\ entry[key] # {} /\ entry' = [entry EXCEPT ![key] = {}]
    /\ FALSE
    /\ UNCHANGED <<subject, row, method, rest, held, standing>>

\* Every key is set with a lifetime.
Expire(key) ==
    /\ entry[key] # {}
    /\ entry' = [entry EXCEPT ![key] = {}]
    /\ UNCHANGED <<subject, row, method, rest, held, standing>>

-----------------------------------------------------------------------------
Done(w) == method[w] # Idle /\ rest[w] = <<>>

Respond(w) == Done(w) /\ End(w)

Abandon(w) == method[w] # Idle /\ End(w)

Serve(w) ==
    \/ Throw(w) \/ Query(w) \/ Check(w) \/ Choose(w) \/ TakeNone(w)
    \/ InsertRow(w) \/ UpdateRow(w) \/ UpsertRow(w) \/ RemoveRow(w)
    \/ RestoreRow(w) \/ Lookup(w) \/ Store(w) \/ Delete(w) \/ Respond(w)

\* What a request does without awaiting anything: the tests of the code, its answer.
Running(w) ==
    Done(w) \/ \E do \in {"needFound", "needRelations", "ifFound", "ifAbsent", "maybe",
                         "noRows", "fail"} : At(w, do)

\* Nobody else's code runs in the meantime.
Turn(w) == \A v \in Workers \ {w} : ~Running(v)

Next ==
    \/ \E w \in Workers : Turn(w) /\ (Begin(w) \/ Serve(w) \/ Abandon(w))
    \/ \E key \in subject.keys : Expire(key)

\* A request being served goes on (the event loop, timeouts of the drivers);
\* Redis expires what is stored.
Fairness ==
    /\ \A w \in Workers : WF_vars(Turn(w) /\ Serve(w))
    /\ WF_vars(\E key \in subject.keys : Expire(key))

Spec == Init /\ [][Next]_vars /\ Fairness

-----------------------------------------------------------------------------
(* Properties.  A request alone is one that nobody else's writes or cache  *)
(* commands came in the middle of, and whose own commands Redis took.      *)

\* Every variable has its type, and a worker at rest holds nothing.
TypeOK ==
    /\ subject \in Subjects
    /\ row \in {"absent", "there", "hidden"}
    /\ entry \in [subject.keys -> {{}} \cup {{copy} : copy \in Copy}]
    /\ \A w \in Workers :
          /\ held[w] \in Copy
          /\ standing[w] \in {"alone", "changed", "disturbed"}
          /\ IF method[w] = Idle
                THEN <<rest[w], held[w], standing[w]>> = <<<<>>, NoCopy, "alone">>
                ELSE method[w] \in DOMAIN Methods

\* Keys that readers fill and no writer of the service stores or deletes.
NeverRefreshed ==
    [accessPolicyService |-> {"action"},
     addressComponentService |-> {"search"},
     clientAppService |-> {"status"},
     kycProfileService |-> {"organization", "status", "type", "user"},
     locationService |-> {"contains", "list", "nearest", "radius"},
     organizationTypeService |-> {"active", "name"},
     permissionService |-> {"code"},
     propertyAddressService |-> {"label", "property"},
     propertyLeaseAgreementService |-> {"details", "landlord", "tenant"},
     propertyRequestService |-> {"property"},
     propertyService |-> {"code", "listed", "organization", "owner"},
     propertyStaffService |-> {"property", "user"},
     propertyUnitService |-> {"number"},
     propertyUnitTenantService |-> {"property", "unit", "user"},
     userService |-> {"email", "phone"}]

\* Methods that write and leave an old copy under a key others of the service refresh.
StaleAfter ==
    {<<"bulkUpsert", "id">>, <<"updateComponent", "id">>,
     <<"createCatalogItemPricing", "item">>, <<"updatePricingByCatalogItemId", "item">>,
     <<"updateClientAppConfigByAppId", "config">>,
     <<"deleteClientAppConfigByAppId", "config">>,
     <<"updateClientAppByAppId", "app">>, <<"deleteClientAppByAppId", "app">>,
     <<"updateKycProfile", "id">>, <<"updateKycRequirement", "id">>,
     <<"updatePermission", "id">>, <<"updateRole", "id">>,
     <<"reorderSequences", "component">>, <<"ensureSinglePrimary", "component">>,
     <<"bulkUpsertLinks", "id">>,
     <<"createOrganizationUserRole", "member">>,
     <<"deleteOrganizationUserRole", "member">>, <<"updateLocation", "id">>, <<"restoreOrganization", "id">>,
     <<"updateOrganizationById", "id">>, <<"updateOrganizationConfig", "id">>}

Left(s) == IF s \in DOMAIN NeverRefreshed THEN NeverRefreshed[s] ELSE {}

\* A request that changed a row, alone, leaves no key with an older copy of it, but
\* for the keys listed: clearing and refilling the cache in every writer.
WritesRefresh ==
    \A w \in Workers : Done(w) /\ standing[w] = "changed" =>
        \A key \in subject.keys \ Left(subject.service) :
            <<method[w], key>> \in StaleAfter \/ \A copy \in entry[key] : copy.current

\* The updates that answer the row as it was: they return what they loaded before
\* they wrote, or what they find in the cache afterwards.
AnswersOld ==
    {"updateComponent", "updateKycProfile", "updateKycRequirement", "upsertLink",
     "updateLocation", "updatePermission", "updateRole"}

\* Every other update, alone, answers the row as it has written it.
AnswersAsWritten ==
    \A w \in Workers :
        /\ Done(w) /\ standing[w] = "changed"
        /\ Methods[method[w]].answers /\ method[w] \notin AnswersOld
        => held[w].found /\ held[w].current

\* The methods that may change the row and then throw, alone: relations that the row
\* was loaded without, or a look for the new row in an old list.
ThrowsAfterWriting ==
    {"bulkDeleteLinks", "clearCenterPoint", "updateLink", "upsertLink", "deleteRequest"}

\* Any other request that answers an error, alone, has changed nothing.
NoErrorAfterWriting ==
    \A w \in Workers : standing[w] = "changed" /\ Throws(w)
        => method[w] \in ThrowsAfterWriting

\* The methods that save an entity they loaded.
Resurrecting ==
    {"addAddonToCatalog", "removeAddonFromCatalog", "addCatalogToCategory",
     "removeCatalogFromCategory", "moveLocation", "updatePermission", "updateRole"}

Inserting(m) == \E step \in StepsOf(m) : step.do \in {"insert", "upsert", "restore"}

\* A row that is gone comes back only by a method that creates or restores, or by one
\* of those that save what they loaded before a concurrent request deleted it.
DeletedStaysDeleted ==
    [][row # "there" /\ row' = "there" =>
        \E w \in Workers :
            /\ method[w] # Idle /\ rest'[w] # rest[w]
            /\ Inserting(Methods[method[w]]) \/ method[w] \in Resurrecting]_vars

\* Once nobody begins to write any more, what Redis holds is in the end of the row
\* as it is: old copies expire, and no reader stores another.
CachesCatchUp ==
    <>[][\A w \in Workers :
            method[w] = Idle /\ method'[w] # Idle => ~Methods[method'[w]].writes]_vars
        => <>[](\A key \in subject.keys : \A copy \in entry[key] : copy.current)

=============================================================================
