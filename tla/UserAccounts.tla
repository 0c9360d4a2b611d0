---------------------------- MODULE UserAccounts ----------------------------
(***************************************************************************)
(* Accounts over three tables: userService.ts and                          *)
(* userCredentialsService.ts create users with their credential,           *)
(* propertyUnitTenantService.ts makes a user the tenant of a unit (one     *)
(* property, one unit).  Every statement is a transaction of its own, so a *)
(* request may stop between two of them, and others may run.  Users are    *)
(* looked up by phone and e-mail through Redis entries that no writer      *)
(* refreshes.  The entry by e-mail is not followed: it holds nothing, or   *)
(* any copy of an account there is or was.                                 *)
(*                                                                         *)
(* The unique indexes of the users are on (tenant, email) and (tenant,     *)
(* phone); no request sets the tenant, and NULLs are distinct: two users   *)
(* may share both.                                                         *)
(***************************************************************************)
EXTENDS Naturals

CONSTANTS
    Ids,        \* uuids of users
    Phones, Emails,
    Invited,    \* the phones tenants are invited by
    TenantEmails, \* those given, or made up, for the tenants invited
    Workers,    \* requests served at a time
    Nothing,    \* no row, no cached value
    Gone,       \* a uuid that has been in use
    MaxOthers   \* bound: requests other than invitations

User == [phone : Phones, email : Emails]
\* A user in memory or in Redis: of its columns only the phone is looked at.
Copy == [id : Ids, phone : Phones]

ASSUME AccountsAssumption ==
    /\ Invited \subseteq Phones /\ TenantEmails \subseteq Emails
    /\ Nothing \notin User /\ Gone \notin User /\ Nothing # Gone
    /\ Nothing \notin Copy
    /\ MaxOthers \in Nat

VARIABLES
    users,        \* the rows of users
    credentials,  \* the users with a row in user_credentials
    tenants,      \* the users with a row in unit_tenants
    byPhone,      \* what Redis holds under userPhone:<phone>
    at, job,      \* where each worker stands, and the request it serves
    held,         \* the user it has found or made
    inForce,      \* the workers whose credential is the last set of their user
    alone,        \* no other request has changed a row since it began
    others        \* requests other than invitations begun

vars == <<users, credentials, tenants, byPhone, at, job, held, inForce, alone, others>>

rows == <<users, credentials, tenants>>

Requests ==
    [op : {"createTenantWithUser"}, phone : Invited, email : TenantEmails]
      \cup [op : {"registerUser", "createUser"}, phone : Phones, email : Emails]
      \cup [op : {"updateUser"}, phone : Phones, email : Emails, id : Ids]

Steps == {"idle", "lookup", "query", "fill", "insertUser", "updateRow",
          "readUser", "writeUser", "reloadUser",
          "findCredential", "saveCredential", "insertCredential", "saveNew",
          "findTenancy", "insertTenancy", "sendSms", "answer"}

Init ==
    /\ users = [id \in Ids |-> Nothing]
    /\ credentials = {}
    /\ tenants = {}
    /\ byPhone = [p \in Phones |-> Nothing]
    /\ at = [w \in Workers |-> "idle"]
    /\ job = [w \in Workers |-> Nothing]
    /\ held = [w \in Workers |-> Nothing]
    /\ inForce = {}
    /\ alone = [w \in Workers |-> TRUE]
    /\ others = 0

Present == {id \in Ids : users[id] \in User}
Free == {id \in Ids : users[id] = Nothing}

Go(w, step) == at' = [at EXCEPT ![w] = step]
Hold(w, copy) == held' = [held EXCEPT ![w] = copy]
Op(w) == job[w].op

\* The answer, or an error.
End(w) ==
    /\ Go(w, "idle")
    /\ job' = [job EXCEPT ![w] = Nothing]
    /\ Hold(w, Nothing)
    /\ inForce' = inForce \ {w}
    /\ alone' = [alone EXCEPT ![w] = TRUE]
    /\ UNCHANGED others

GoOn(w, step) == Go(w, step) /\ UNCHANGED <<job, inForce, alone, others>>

\* A statement of w that changes a row, and goes on.
Wrote(w, step) ==
    /\ Go(w, step)
    /\ alone' = [v \in Workers |-> IF v = w THEN alone[w] ELSE at[v] = "idle"]
    /\ UNCHANGED <<job, byPhone, others>>

CountOther == others < MaxOthers /\ others' = others + 1

Begin(w) ==
    /\ at[w] = "idle"
    /\ \E request \in Requests :
          /\ job' = [job EXCEPT ![w] = request]
          /\ Go(w, CASE request.op \in {"createTenantWithUser", "registerUser"} -> "lookup"
                     [] request.op = "createUser" -> "insertUser"
                     [] request.op = "updateUser" -> "updateRow")
          /\ IF request.op = "createTenantWithUser" THEN UNCHANGED others ELSE CountOther
    /\ UNCHANGED <<rows, byPhone, held, inForce, alone>>

-----------------------------------------------------------------------------
(* getByPhone and getByEmail.                                              *)

\* What Redis may answer.
Cached(w) ==
    IF Op(w) = "createTenantWithUser"
      THEN {byPhone[job[w].phone]} \ {Nothing}
      ELSE [id : Ids \ Free, phone : Phones]

\* The users the query of a request asks for: by phone for createTenantWithUser, by
\* e-mail for registerUser.  Nobody asks for the other column.
Matching(w) ==
    {id \in Present : IF Op(w) = "createTenantWithUser"
                      THEN users[id].phone = job[w].phone
                      ELSE users[id].email = job[w].email}

\* The user is found.  registerUser compares the phones: 'Phone does not match
\* existing account'; createTenantWithUser first updates names that differ.
Found(w, copy) ==
    IF Op(w) = "registerUser" /\ copy.phone # job[w].phone
      THEN End(w)
      ELSE /\ Hold(w, copy)
           /\ \/ GoOn(w, "findCredential")
              \/ Op(w) = "createTenantWithUser" /\ GoOn(w, "readUser")

\* A variant for mutation: who is not in the cache has no account.
LookupOnly(w) ==
    /\ at[w] = "lookup"
    /\ \/ \E copy \in Cached(w) : Found(w, copy)
       \/ GoOn(w, "insertUser") /\ UNCHANGED held
    /\ UNCHANGED <<rows, byPhone>>

Lookup(w) ==
    /\ at[w] = "lookup"
    /\ \/ \E copy \in Cached(w) : Found(w, copy)
       \/ GoOn(w, "query") /\ UNCHANGED held        \* a miss, or GET failed
    /\ UNCHANGED <<rows, byPhone>>

\* findOne without an order: any of the users that match.
Query(w) ==
    /\ at[w] = "query"
    /\ \/ /\ Matching(w) = {}
          /\ GoOn(w, "insertUser") /\ UNCHANGED held
       \/ \E id \in Matching(w) :
             /\ Hold(w, [id |-> id, phone |-> users[id].phone])
             /\ GoOn(w, "fill")
    /\ UNCHANGED <<rows, byPhone>>

\* Only a user that was found is stored; a command that fails is dropped.
Fill(w) ==
    /\ at[w] = "fill"
    /\ byPhone' \in IF Op(w) = "createTenantWithUser"
                      THEN {byPhone, [byPhone EXCEPT ![job[w].phone] = held[w]]}
                      ELSE {byPhone}
    /\ Found(w, held[w])
    /\ UNCHANGED rows

-----------------------------------------------------------------------------
(* The statements.                                                         *)

\* A uuid that was never in use: which one does not matter.
Fresh == CHOOSE id \in Free : TRUE

\* createUser, of a client with or without a credential, or of another method.
InsertUser(w) ==
    /\ at[w] = "insertUser"
    /\ Free # {}
    /\ users' = [users EXCEPT ![Fresh] = [phone |-> job[w].phone, email |-> job[w].email]]
    /\ Hold(w, [id |-> Fresh, phone |-> job[w].phone])
    /\ Wrote(w, "findCredential")
    /\ UNCHANGED <<credentials, tenants, inForce>>

\* updateUser: of an account that is gone it finds at most a cached copy.
UpdateRow(w) ==
    /\ at[w] = "updateRow"
    /\ IF job[w].id \in Present
         THEN /\ users' = [users EXCEPT ![job[w].id] = [phone |-> job[w].phone, email |-> job[w].email]]
              /\ Hold(w, [id |-> job[w].id, phone |-> job[w].phone])
              /\ Wrote(w, "findCredential")
              /\ UNCHANGED inForce
         ELSE End(w) /\ UNCHANGED <<users, byPhone>>
    /\ UNCHANGED <<credentials, tenants>>

\* getById, of updateUser before and after its update: NotFoundError.
Reread(w, next) ==
    IF held[w].id \in Present
      THEN Hold(w, [held[w] EXCEPT !.phone = users[held[w].id].phone]) /\ GoOn(w, next)
      ELSE End(w)

ReadUser(w) ==
    /\ at[w] = "readUser" /\ Reread(w, "writeUser")
    /\ UNCHANGED <<rows, byPhone>>

\* The update of the names writes back the phone that was read.
WriteUser(w) ==
    /\ at[w] = "writeUser"
    /\ IF held[w].id \in Present
         THEN /\ users' = [users EXCEPT ![held[w].id].phone = held[w].phone]
              /\ Wrote(w, "reloadUser")
              /\ UNCHANGED inForce
         ELSE GoOn(w, "reloadUser") /\ UNCHANGED <<users, byPhone>>
    /\ UNCHANGED <<credentials, tenants, held>>

ReloadUser(w) ==
    /\ at[w] = "reloadUser" /\ Reread(w, "findCredential")
    /\ UNCHANGED <<rows, byPhone>>

\* A variant for mutation: a second credential is refused, not saved over the first.
FindCredentialOnce(w) ==
    /\ at[w] = "findCredential"
    /\ \/ Op(w) \in {"createUser", "updateUser"} /\ End(w)
       \/ /\ held[w].id \in credentials
          /\ IF Op(w) = "updateUser" THEN GoOn(w, "saveCredential") /\ UNCHANGED held
             ELSE End(w)
       \/ /\ held[w].id \notin credentials
          /\ IF Op(w) = "updateUser" THEN End(w)
             ELSE GoOn(w, "insertCredential") /\ UNCHANGED held
    /\ UNCHANGED <<rows, byPhone>>

\* createUser and updateUser set a credential only if the client gives one, and
\* updateUserCredentials throws if there is none to update.
FindCredential(w) ==
    /\ at[w] = "findCredential"
    /\ \/ Op(w) \in {"createUser", "updateUser"} /\ End(w)
       \/ /\ held[w].id \in credentials
          /\ GoOn(w, "saveCredential") /\ UNCHANGED held
       \/ /\ held[w].id \notin credentials
          /\ IF Op(w) = "updateUser" THEN End(w)
             ELSE GoOn(w, "insertCredential") /\ UNCHANGED held
    /\ UNCHANGED <<rows, byPhone>>

AfterCredential ==
    [createTenantWithUser |-> "findTenancy", registerUser |-> "sendSms",
     createUser |-> "answer", updateUser |-> "answer"]

SetCredential(w, next) ==
    /\ credentials' = credentials \cup {held[w].id}
    /\ inForce' = {v \in inForce : held[v].id # held[w].id} \cup {w}
    /\ Wrote(w, next)
    /\ UNCHANGED <<users, tenants, held>>

Refuse(w) == End(w) /\ UNCHANGED <<rows, byPhone>>

\* A variant for mutation: the credential found is kept.
SaveCredentialNot(w) ==
    /\ at[w] = "saveCredential"
    /\ GoOn(w, AfterCredential[Op(w)])
    /\ UNCHANGED <<rows, byPhone, held>>

SaveCredential(w) ==
    /\ at[w] = "saveCredential"
    /\ SetCredential(w, AfterCredential[Op(w)])

\* A variant for mutation: userId is unique, and references nothing.
InsertCredentialOfAnyone(w) ==
    /\ at[w] = "insertCredential"
    /\ IF held[w].id \notin credentials THEN SetCredential(w, "saveNew") ELSE Refuse(w)

\* userId is unique and references users.
InsertCredential(w) ==
    /\ at[w] = "insertCredential"
    /\ IF held[w].id \in Present \ credentials
         THEN SetCredential(w, "saveNew")
         ELSE Refuse(w)

\* create has inserted the credential; saving it again undoes what another request
\* has made of it in between.
SaveNew(w) ==
    /\ at[w] = "saveNew"
    /\ IF w \in inForce
         THEN GoOn(w, AfterCredential[Op(w)]) /\ UNCHANGED <<rows, byPhone, held>>
         ELSE SetCredential(w, AfterCredential[Op(w)])

FindTenancy(w) ==
    /\ at[w] = "findTenancy"
    /\ GoOn(w, IF held[w].id \in tenants THEN "sendSms" ELSE "insertTenancy")
    /\ UNCHANGED <<rows, byPhone, held>>

\* The index on property, unit and user is unique.
InsertTenancy(w) ==
    /\ at[w] = "insertTenancy"
    /\ IF held[w].id \in Present \ tenants
         THEN /\ tenants' = tenants \cup {held[w].id}
              /\ Wrote(w, "sendSms")
              /\ UNCHANGED <<users, credentials, held, inForce>>
         ELSE Refuse(w)

\* The PIN goes to the phone of the user held; then the answer.  A failure to send
\* is an error of registerUser only, and changes nothing.
SendSms(w) == at[w] = "sendSms" /\ Refuse(w)

Respond(w) == at[w] = "answer" /\ Refuse(w)

\* A database error, Redis out of reach, or the process dies.
Abandon(w) == at[w] # "idle" /\ Refuse(w)

-----------------------------------------------------------------------------
(* Requests of one statement.                                              *)

Intervene ==
    /\ CountOther
    /\ alone' = [w \in Workers |-> at[w] = "idle"]
    /\ UNCHANGED <<byPhone, at, job, held, inForce>>

\* deleteUser: credentials and tenancies reference the user and do not cascade.
DeleteUser(id) ==
    /\ id \in Present \ (credentials \cup tenants)
    /\ users' = [users EXCEPT ![id] = Gone]
    /\ UNCHANGED <<credentials, tenants>>
    /\ Intervene

CreateUnitTenant(id) ==
    /\ id \in Present \ tenants
    /\ tenants' = tenants \cup {id}
    /\ UNCHANGED <<users, credentials>>
    /\ Intervene

DeleteUnitTenant(id) ==
    /\ id \in tenants
    /\ tenants' = tenants \ {id}
    /\ UNCHANGED <<users, credentials>>
    /\ Intervene

\* A variant for mutation: entries are set without a lifetime.
ExpirePhoneNever(p) ==
    /\ FALSE
    /\ UNCHANGED vars

\* Every entry is set with a lifetime, which reading it does not renew.
ExpirePhone(p) ==
    /\ byPhone[p] # Nothing
    /\ byPhone' = [byPhone EXCEPT ![p] = Nothing]
    /\ UNCHANGED <<rows, at, job, held, inForce, alone, others>>

-----------------------------------------------------------------------------
Serve(w) ==
    \/ Lookup(w) \/ Query(w) \/ Fill(w)
    \/ InsertUser(w) \/ UpdateRow(w) \/ ReadUser(w) \/ WriteUser(w) \/ ReloadUser(w)
    \/ FindCredential(w) \/ SaveCredential(w)
    \/ InsertCredential(w) \/ SaveNew(w)
    \/ FindTenancy(w) \/ InsertTenancy(w) \/ SendSms(w) \/ Respond(w)

Next ==
    \/ \E w \in Workers : Begin(w) \/ Serve(w) \/ Abandon(w)
    \/ \E id \in Ids : DeleteUser(id) \/ CreateUnitTenant(id) \/ DeleteUnitTenant(id)
    \/ \E p \in Phones : ExpirePhone(p)

\* A request being served goes on; Redis expires what is stored.
Fairness ==
    /\ \A w \in Workers : WF_vars(Serve(w))
    /\ \A p \in Phones : WF_vars(ExpirePhone(p))

Spec == Init /\ [][Next]_vars /\ Fairness

-----------------------------------------------------------------------------
(* Properties.                                                             *)

\* The state is well typed; credentials and tenancies are of users that exist.
TypeOK ==
    /\ users \in [Ids -> User \cup {Nothing, Gone}]
    /\ credentials \cup tenants \subseteq Present
    /\ byPhone \in [Phones -> Copy \cup {Nothing}]
    /\ at \in [Workers -> Steps]
    /\ job \in [Workers -> Requests \cup {Nothing}]
    /\ held \in [Workers -> Copy \cup {Nothing}]
    /\ inForce \subseteq {w \in Workers : held[w] # Nothing}
    /\ alone \in [Workers -> BOOLEAN]
    /\ others \in 0..MaxOthers

\* Unless another request changes rows while it runs, createTenantWithUser makes no
\* second user with the phone it has searched for, nor registerUser one with the
\* e-mail: what a cached entry holds or an expired one hides does not matter.  The
\* column that is not searched is left open, as the code leaves it: an invitation
\* makes a second user with an e-mail, a registration one with a phone, that is
\* taken, without any overlap.
NoSecondForSearched ==
    [][\A w \in Workers :
          InsertUser(w) /\ Op(w) # "createUser" /\ alone[w] => Matching(w) = {}]_vars

\* When a PIN is sent, its account exists and can be signed in to, whatever has
\* happened to it since it was looked up; if no other request changed a row, the PIN
\* is the credential in force, and the person invited is a tenant.
PinOpensAccount ==
    \A w \in Workers :
        at[w] = "sendSms" =>
            /\ held[w].id \in Present
            /\ held[w].id \in credentials
            /\ alone[w] =>
                  /\ w \in inForce
                  /\ Op(w) = "createTenantWithUser" => held[w].id \in tenants

\* An invitation finds a changed phone only when the cached user has expired: once
\* no user changes any more, its PINs go to the phones the accounts have.
PinsReachTheirPhone ==
    <>[][users' = users]_vars =>
        <>[](\A w \in Workers :
                at[w] = "sendSms" /\ Op(w) = "createTenantWithUser"
                  => held[w].phone = users[held[w].id].phone)

Inviting(p) ==
    \E w \in Workers :
        at[w] # "idle" /\ Op(w) = "createTenantWithUser" /\ job[w].phone = p

Settled(p) ==
    \E id \in tenants : users[id].phone = p /\ id \in credentials

\* Nothing fails, no account changes its phone or goes, nobody leaves the unit.
Calm ==
    /\ \A w \in Workers : Abandon(w) => Serve(w)
    /\ \A id \in Present : users'[id] = users[id]
    /\ tenants \subseteq tenants'

\* Wherever an invitation stopped, inviting again repairs: a person who is invited
\* again and again is a tenant with a credential in the end, once nothing fails.
InvitationsHeal ==
    \A p \in Invited :
        []<>Inviting(p) /\ <>[][Calm]_vars /\ []<>(Free # {}) => <>Settled(p)

=============================================================================
