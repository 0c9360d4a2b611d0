------------------------- MODULE UserAccountsProofs -------------------------
(***************************************************************************)
(* For any numbers of users, phones, e-mails and workers: the types of     *)
(* UserAccounts, what a PIN that is sent is good for, and when a second    *)
(* account is made.                                                        *)
(***************************************************************************)
EXTENDS UserAccounts, TLAPS

Inviter(w) == Op(w) = "createTenantWithUser"

\* The steps at which a worker holds a user, and those after it has found or set
\* the credential of that user.
Holding == {"fill", "readUser", "writeUser", "reloadUser", "findCredential",
            "saveCredential", "insertCredential", "saveNew", "findTenancy",
            "insertTenancy", "sendSms", "answer"}
Credited == {"saveCredential", "saveNew", "findTenancy", "insertTenancy", "sendSms"}

\* What a worker serves and holds at each step.
WorkerTypes(w) ==
    /\ at[w] # "idle" => job[w] \in Requests
    /\ at[w] \in {"lookup", "query", "fill"} => Op(w) \in {"createTenantWithUser", "registerUser"}
    /\ at[w] = "insertUser" => Op(w) # "updateUser"
    /\ at[w] = "updateRow" => Op(w) = "updateUser"
    /\ at[w] \in {"readUser", "writeUser", "reloadUser", "findTenancy",
                  "insertTenancy"} => Inviter(w)
    /\ at[w] \in Holding => held[w] \in Copy

\* The account of a worker that has passed its credential stays, as a credential
\* references it; the rest is as the worker left it while nobody else writes.
WorkerPins(w) ==
    /\ at[w] \in Credited => held[w].id \in credentials
    /\ alone[w] /\ at[w] \in Credited \ {"saveCredential"} => w \in inForce
    /\ alone[w] /\ at[w] = "sendSms" /\ Inviter(w) => held[w].id \in tenants
    /\ alone[w] /\ at[w] = "insertUser" /\ Op(w) # "createUser" => Matching(w) = {}

AccountsInv ==
    /\ TypeOK
    /\ \A w \in Workers : WorkerTypes(w) /\ WorkerPins(w)

\* What the step of somebody else leaves to a worker.
Spared(w) ==
    /\ at'[w] = at[w] /\ job'[w] = job[w] /\ held'[w] = held[w]
    /\ credentials \subseteq credentials'
    /\ alone'[w] /\ at[w] # "idle" =>
          /\ alone[w]
          /\ users' = users
          /\ tenants \subseteq tenants'
          /\ w \in inForce => w \in inForce'

\* The fields of a request.
LEMMA RequestFields ==
    ASSUME NEW r \in Requests
    PROVE  /\ r.op \in {"createTenantWithUser", "registerUser", "createUser", "updateUser"}
           /\ r.phone \in Phones /\ r.email \in Emails
           /\ r.op = "createTenantWithUser" => r.phone \in Invited
           /\ r.op = "updateUser" => r.id \in Ids
BY AccountsAssumption DEF Requests

LEMMA SparedKeeps ==
    ASSUME NEW w \in Workers, WorkerTypes(w), WorkerPins(w), Spared(w)
    PROVE  WorkerTypes(w)' /\ WorkerPins(w)'
<1>1. WorkerTypes(w)'
  BY DEF WorkerTypes, Spared, Op, Inviter
<1>2. at'[w] \in Credited => held'[w].id \in credentials'
  BY DEF WorkerPins, Spared
<1>3. alone'[w] /\ at'[w] \in Credited \ {"saveCredential"} => w \in inForce'
  BY DEF WorkerPins, Spared, Credited
<1>4. alone'[w] /\ at'[w] = "sendSms" /\ Inviter(w)' => held'[w].id \in tenants'
  BY DEF WorkerPins, Spared, Inviter, Op
<1>5. alone'[w] /\ at'[w] = "insertUser" /\ Op(w)' # "createUser" => Matching(w)' = {}
  BY DEF WorkerPins, Spared, Op, Matching, Present
<1> QED BY <1>1, <1>2, <1>3, <1>4, <1>5 DEF WorkerPins

\* One worker moves and the others are spared.
LEMMA OneMoves ==
    ASSUME AccountsInv, NEW w \in Workers,
           TypeOK', WorkerTypes(w)', WorkerPins(w)',
           \A v \in Workers \ {w} : Spared(v)
    PROVE  AccountsInv'
<1>1. \A v \in Workers : WorkerTypes(v)' /\ WorkerPins(v)'
  <2> TAKE v \in Workers
  <2>1. CASE v = w
    BY <2>1
  <2>2. CASE v # w
    BY <2>2, SparedKeeps DEF AccountsInv
  <2> QED BY <2>1, <2>2
<1> QED BY <1>1 DEF AccountsInv

-----------------------------------------------------------------------------
(* Requests that answer, and requests that go on without writing.          *)

LEMMA EndKeeps ==
    ASSUME AccountsInv, NEW w \in Workers, End(w), UNCHANGED rows,
           byPhone' \in [Phones -> Copy \cup {Nothing}]
    PROVE  AccountsInv'
<1>1. TypeOK'
  <2>1. at' \in [Workers -> Steps]
    BY DEF AccountsInv, TypeOK, End, Go, Steps
  <2>2. /\ job' \in [Workers -> Requests \cup {Nothing}]
        /\ held' \in [Workers -> Copy \cup {Nothing}]
        /\ inForce' \subseteq {v \in Workers : held'[v] # Nothing}
    BY DEF AccountsInv, TypeOK, End, Hold
  <2>3. alone' \in [Workers -> BOOLEAN]
    BY DEF AccountsInv, TypeOK, End
  <2> QED BY <2>1, <2>2, <2>3 DEF AccountsInv, TypeOK, End, rows, Present
<1>2. at'[w] = "idle"
  BY DEF AccountsInv, TypeOK, End, Go
<1>3. WorkerTypes(w)' /\ WorkerPins(w)'
  BY <1>2 DEF WorkerTypes, WorkerPins, Holding, Credited
<1>4. \A v \in Workers \ {w} : Spared(v)
  BY DEF AccountsInv, TypeOK, End, Go, Hold, Spared, rows
<1> QED BY <1>1, <1>3, <1>4, OneMoves
\* What is left to show after a step that writes no row.
LEMMA GoOnKeeps ==
    ASSUME AccountsInv, NEW w \in Workers, NEW step \in Steps,
           GoOn(w, step), UNCHANGED rows,
           held' \in [Workers -> Copy \cup {Nothing}],
           held'[w] # Nothing \/ w \notin inForce,
           \A v \in Workers \ {w} : held'[v] = held[v],
           byPhone' \in [Phones -> Copy \cup {Nothing}],
           WorkerTypes(w)', WorkerPins(w)'
    PROVE  AccountsInv'
<1>1. at' \in [Workers -> Steps]
  BY DEF AccountsInv, TypeOK, GoOn, Go
<1>2. inForce' \subseteq {v \in Workers : held'[v] # Nothing}
  BY DEF AccountsInv, TypeOK, GoOn
<1>3. TypeOK'
  BY <1>1, <1>2 DEF AccountsInv, TypeOK, GoOn, rows, Present
<1>4. \A v \in Workers \ {w} : Spared(v)
  BY DEF AccountsInv, TypeOK, GoOn, Go, Spared, rows
<1> QED BY <1>3, <1>4, OneMoves

\* Where a worker goes on to, and with what.
LEMMA GoOnMoves ==
    ASSUME AccountsInv, NEW w \in Workers, NEW step, GoOn(w, step)
    PROVE  at'[w] = step /\ job'[w] = job[w] /\ alone'[w] = alone[w] /\ inForce' = inForce
BY DEF AccountsInv, TypeOK, GoOn, Go

\* A worker that has found its user: it may serve an invitation or a registration.
LEMMA FoundKeeps ==
    ASSUME AccountsInv, NEW w \in Workers, NEW copy \in Copy, Found(w, copy),
           at[w] \in {"lookup", "fill"}, UNCHANGED rows,
           byPhone' \in [Phones -> Copy \cup {Nothing}]
    PROVE  AccountsInv'
<1>1. CASE End(w)
  BY <1>1, EndKeeps
<1>2. CASE Hold(w, copy) /\ GoOn(w, "findCredential")
  <2>1. /\ held'[w] = copy /\ held' \in [Workers -> Copy \cup {Nothing}]
        /\ \A v \in Workers \ {w} : held'[v] = held[v]
    BY <1>2 DEF AccountsInv, TypeOK, Hold
  <2>2. WorkerTypes(w)' /\ WorkerPins(w)'
    BY <1>2, <2>1, GoOnMoves DEF AccountsInv, WorkerTypes, WorkerPins, Holding, Credited, Op, Inviter
  <2> QED BY <1>2, <2>1, <2>2, GoOnKeeps, AccountsAssumption DEF Steps
<1>3. CASE Inviter(w) /\ Hold(w, copy) /\ GoOn(w, "readUser")
  <2>1. /\ held'[w] = copy /\ held' \in [Workers -> Copy \cup {Nothing}]
        /\ \A v \in Workers \ {w} : held'[v] = held[v]
    BY <1>3 DEF AccountsInv, TypeOK, Hold
  <2>2. WorkerTypes(w)' /\ WorkerPins(w)'
    BY <1>3, <2>1, GoOnMoves DEF AccountsInv, WorkerTypes, WorkerPins, Holding, Credited, Op, Inviter
  <2> QED BY <1>3, <2>1, <2>2, GoOnKeeps, AccountsAssumption DEF Steps
<1> QED BY <1>1, <1>2, <1>3 DEF Found, Inviter

LEMMA LookupKeeps ==
    ASSUME AccountsInv, NEW w \in Workers, Lookup(w)
    PROVE  AccountsInv'
<1>1. byPhone' \in [Phones -> Copy \cup {Nothing}] /\ UNCHANGED rows
  BY DEF Lookup, AccountsInv, TypeOK
<1>2. job[w] \in Requests
  BY DEF Lookup, AccountsInv, WorkerTypes
<1>3. CASE \E copy \in Cached(w) : Found(w, copy)
  <2> PICK copy \in Cached(w) : Found(w, copy)
    BY <1>3
  <2>1. copy \in Copy
    <3>1. CASE Inviter(w)
      BY <3>1, <1>2, RequestFields DEF Cached, AccountsInv, TypeOK, Inviter
    <3>2. CASE ~Inviter(w)
      BY <3>2 DEF Cached, Inviter, Copy, Free
    <3> QED BY <3>1, <3>2
  <2> QED BY <1>1, <2>1, FoundKeeps DEF Lookup
<1>4. CASE GoOn(w, "query") /\ UNCHANGED held
  <2>1. WorkerTypes(w)' /\ WorkerPins(w)'
    BY <1>2, <1>4, GoOnMoves DEF Lookup, AccountsInv, WorkerTypes, WorkerPins, Holding, Credited, Op, Inviter
  <2> QED BY <1>1, <1>4, <2>1, GoOnKeeps DEF AccountsInv, TypeOK, Steps
<1> QED BY <1>3, <1>4 DEF Lookup

LEMMA QueryKeeps ==
    ASSUME AccountsInv, NEW w \in Workers, Query(w)
    PROVE  AccountsInv'
<1>1. byPhone' \in [Phones -> Copy \cup {Nothing}] /\ UNCHANGED rows
  BY DEF Query, AccountsInv, TypeOK
<1>2. job[w] \in Requests
  BY DEF Query, AccountsInv, WorkerTypes
<1>3. CASE Matching(w) = {} /\ GoOn(w, "insertUser") /\ UNCHANGED held
  <2>1. Matching(w)' = {}
    BY <1>1, <1>3, GoOnMoves DEF Matching, Present, rows, Op
  <2>2. WorkerTypes(w)' /\ WorkerPins(w)'
    BY <1>2, <1>3, <2>1, GoOnMoves DEF Query, AccountsInv, WorkerTypes, WorkerPins, Holding, Credited, Op, Inviter
  <2> QED BY <1>1, <1>3, <2>2, GoOnKeeps DEF AccountsInv, TypeOK, Steps
<1>4. ASSUME NEW id \in Matching(w),
             Hold(w, [id |-> id, phone |-> users[id].phone]), GoOn(w, "fill")
      PROVE  AccountsInv'
  <2>1. [id |-> id, phone |-> users[id].phone] \in Copy
    BY <1>4 DEF Matching, Present, User, Copy
  <2>2. /\ held'[w] \in Copy /\ held' \in [Workers -> Copy \cup {Nothing}]
        /\ \A v \in Workers \ {w} : held'[v] = held[v]
    BY <1>4, <2>1 DEF AccountsInv, TypeOK, Hold
  <2>3. WorkerTypes(w)' /\ WorkerPins(w)'
    BY <1>2, <1>4, <2>2, GoOnMoves DEF Query, AccountsInv, WorkerTypes, WorkerPins, Holding, Credited, Op, Inviter
  <2> QED BY <1>1, <1>4, <2>2, <2>3, GoOnKeeps, AccountsAssumption DEF Steps
<1> QED BY <1>3, <1>4 DEF Query

LEMMA FillKeeps ==
    ASSUME AccountsInv, NEW w \in Workers, Fill(w)
    PROVE  AccountsInv'
<1>1. held[w] \in Copy /\ job[w] \in Requests
  BY DEF Fill, AccountsInv, WorkerTypes, Holding
<1>2. byPhone' \in [Phones -> Copy \cup {Nothing}]
  BY <1>1, RequestFields DEF Fill, AccountsInv, TypeOK
<1> QED BY <1>1, <1>2, FoundKeeps DEF Fill

LEMMA ReadUserKeeps ==
    ASSUME AccountsInv, NEW w \in Workers, ReadUser(w) \/ ReloadUser(w)
    PROVE  AccountsInv'
<1>1. byPhone' \in [Phones -> Copy \cup {Nothing}] /\ UNCHANGED rows
  BY DEF ReadUser, ReloadUser, AccountsInv, TypeOK
<1>2. held[w] \in Copy /\ job[w] \in Requests /\ Inviter(w)
  BY DEF ReadUser, ReloadUser, AccountsInv, WorkerTypes, Holding, Inviter
<1>3. CASE End(w)
  BY <1>1, <1>3, EndKeeps
<1>4. ASSUME NEW step \in {"writeUser", "findCredential"},
             held[w].id \in Present,
             Hold(w, [held[w] EXCEPT !.phone = users[held[w].id].phone]), GoOn(w, step)
      PROVE  AccountsInv'
  <2>1. [held[w] EXCEPT !.phone = users[held[w].id].phone] \in Copy
    BY <1>2, <1>4 DEF Copy, Present, User
  <2>2. /\ held'[w] \in Copy /\ held' \in [Workers -> Copy \cup {Nothing}]
        /\ \A v \in Workers \ {w} : held'[v] = held[v]
    BY <1>4, <2>1 DEF AccountsInv, TypeOK, Hold
  <2>3. WorkerTypes(w)' /\ WorkerPins(w)'
    BY <1>2, <1>4, <2>2, GoOnMoves DEF WorkerTypes, WorkerPins, Holding, Credited, Op, Inviter
  <2> QED BY <1>1, <1>4, <2>2, <2>3, GoOnKeeps, AccountsAssumption DEF Steps
<1> QED BY <1>3, <1>4 DEF ReadUser, ReloadUser, Reread

LEMMA FindCredentialKeeps ==
    ASSUME AccountsInv, NEW w \in Workers, FindCredential(w)
    PROVE  AccountsInv'
<1>1. byPhone' \in [Phones -> Copy \cup {Nothing}] /\ UNCHANGED rows
  BY DEF FindCredential, AccountsInv, TypeOK
<1>2. held[w] \in Copy /\ job[w] \in Requests
  BY DEF FindCredential, AccountsInv, WorkerTypes, Holding
<1>3. CASE End(w)
  BY <1>1, <1>3, EndKeeps
<1>4. ASSUME NEW step \in {"saveCredential", "insertCredential"},
             step = "saveCredential" => held[w].id \in credentials,
             GoOn(w, step), UNCHANGED held
      PROVE  AccountsInv'
  <2>1. WorkerTypes(w)' /\ WorkerPins(w)'
    BY <1>1, <1>2, <1>4, GoOnMoves DEF WorkerTypes, WorkerPins, Holding, Credited, Op, Inviter, rows
  <2> QED BY <1>1, <1>4, <2>1, GoOnKeeps DEF AccountsInv, TypeOK, Steps
<1> QED BY <1>3, <1>4 DEF FindCredential

LEMMA FindTenancyKeeps ==
    ASSUME AccountsInv, NEW w \in Workers, FindTenancy(w)
    PROVE  AccountsInv'
<1>1. byPhone' \in [Phones -> Copy \cup {Nothing}] /\ UNCHANGED <<rows, held>>
  BY DEF FindTenancy, AccountsInv, TypeOK
<1>2. /\ held[w] \in Copy /\ job[w] \in Requests /\ Inviter(w)
      /\ held[w].id \in credentials /\ (alone[w] => w \in inForce)
  BY DEF FindTenancy, AccountsInv, WorkerTypes, WorkerPins, Holding, Credited
<1>3. ASSUME NEW step \in {"sendSms", "insertTenancy"},
             step = "sendSms" => held[w].id \in tenants, GoOn(w, step)
      PROVE  AccountsInv'
  <2>1. WorkerTypes(w)' /\ WorkerPins(w)'
    BY <1>1, <1>2, <1>3, GoOnMoves DEF WorkerTypes, WorkerPins, Holding, Credited, Op, Inviter, rows
  <2> QED BY <1>1, <1>3, <2>1, GoOnKeeps DEF AccountsInv, TypeOK, Steps
<1> QED BY <1>3 DEF FindTenancy

-----------------------------------------------------------------------------
(* Statements: whoever else is under way is not alone any more.            *)

LEMMA WroteKeeps ==
    ASSUME AccountsInv, NEW w \in Workers, NEW step \in Steps, Wrote(w, step),
           users' \in [Ids -> User \cup {Nothing, Gone}],
           Present \subseteq Present',
           credentials \subseteq credentials',
           credentials' \cup tenants' \subseteq Present',
           held' \in [Workers -> Copy \cup {Nothing}],
           \A v \in Workers \ {w} : held'[v] = held[v],
           inForce' \subseteq {v \in Workers : held'[v] # Nothing},
           WorkerTypes(w)', WorkerPins(w)'
    PROVE  AccountsInv'
<1>1. at' \in [Workers -> Steps] /\ alone' \in [Workers -> BOOLEAN]
  BY DEF AccountsInv, TypeOK, Wrote, Go
<1>2. TypeOK'
  BY <1>1 DEF AccountsInv, TypeOK, Wrote
<1>3. \A v \in Workers \ {w} : Spared(v)
  BY DEF AccountsInv, TypeOK, Wrote, Go, Spared
<1> QED BY <1>2, <1>3, OneMoves

LEMMA WroteMoves ==
    ASSUME AccountsInv, NEW w \in Workers, NEW step, Wrote(w, step)
    PROVE  at'[w] = step /\ job'[w] = job[w] /\ alone'[w] = alone[w]
BY DEF AccountsInv, TypeOK, Wrote, Go

LEMMA InsertUserKeeps ==
    ASSUME AccountsInv, NEW w \in Workers, InsertUser(w)
    PROVE  AccountsInv'
<1>1. job[w] \in Requests
  BY DEF InsertUser, AccountsInv, WorkerTypes
<1>2. Fresh \in Ids /\ users[Fresh] = Nothing
  BY DEF InsertUser, Fresh, Free
<1> DEFINE user == [phone |-> job[w].phone, email |-> job[w].email]
           copy == [id |-> Fresh, phone |-> job[w].phone]
<1>3. user \in User /\ copy \in Copy
  BY <1>1, <1>2, RequestFields DEF User, Copy
<1>4. users' = [users EXCEPT ![Fresh] = user] /\ held' = [held EXCEPT ![w] = copy]
  BY DEF InsertUser, Hold
<1> HIDE DEF user, copy
<1>5. /\ users' \in [Ids -> User \cup {Nothing, Gone}]
      /\ Present \subseteq Present'
  BY <1>2, <1>3, <1>4 DEF AccountsInv, TypeOK, Present
<1>6. /\ held'[w] \in Copy /\ held' \in [Workers -> Copy \cup {Nothing}]
      /\ \A v \in Workers \ {w} : held'[v] = held[v]
  BY <1>3, <1>4 DEF AccountsInv, TypeOK
<1>7. inForce' \subseteq {v \in Workers : held'[v] # Nothing}
  BY <1>6, AccountsAssumption DEF InsertUser, AccountsInv, TypeOK
<1>8. WorkerTypes(w)' /\ WorkerPins(w)'
  BY <1>1, <1>6, WroteMoves DEF InsertUser, WorkerTypes, WorkerPins, Holding, Credited, Op, Inviter
<1> QED BY <1>5, <1>6, <1>7, <1>8, WroteKeeps DEF InsertUser, AccountsInv, TypeOK, Steps

LEMMA UpdateRowKeeps ==
    ASSUME AccountsInv, NEW w \in Workers, UpdateRow(w)
    PROVE  AccountsInv'
<1>1. job[w] \in Requests /\ job[w].id \in Ids
  BY RequestFields DEF UpdateRow, AccountsInv, WorkerTypes, Op
<1>2. CASE job[w].id \notin Present
  BY <1>2, EndKeeps DEF UpdateRow, AccountsInv, TypeOK, rows
<1>3. CASE job[w].id \in Present
  <2> DEFINE user == [phone |-> job[w].phone, email |-> job[w].email]
             copy == [id |-> job[w].id, phone |-> job[w].phone]
  <2>1. user \in User /\ copy \in Copy
    BY <1>1, RequestFields DEF User, Copy
  <2>2. /\ users' = [users EXCEPT ![job[w].id] = user] /\ held' = [held EXCEPT ![w] = copy]
        /\ Wrote(w, "findCredential") /\ UNCHANGED <<credentials, tenants, inForce>>
    BY <1>3 DEF UpdateRow, Hold
  <2> HIDE DEF user, copy
  <2>3. users' \in [Ids -> User \cup {Nothing, Gone}] /\ Present \subseteq Present'
    BY <1>1, <2>1, <2>2 DEF AccountsInv, TypeOK, Present
  <2>4. /\ held'[w] \in Copy /\ held' \in [Workers -> Copy \cup {Nothing}]
        /\ \A v \in Workers \ {w} : held'[v] = held[v]
    BY <2>1, <2>2 DEF AccountsInv, TypeOK
  <2>5. inForce' \subseteq {v \in Workers : held'[v] # Nothing}
    BY <2>2, <2>4, AccountsAssumption DEF AccountsInv, TypeOK
  <2>6. WorkerTypes(w)' /\ WorkerPins(w)'
    BY <1>1, <2>2, <2>4, WroteMoves DEF WorkerTypes, WorkerPins, Holding, Credited, Op, Inviter
  <2> QED BY <2>2, <2>3, <2>4, <2>5, <2>6, WroteKeeps DEF AccountsInv, TypeOK, Steps
<1> QED BY <1>2, <1>3

LEMMA WriteUserKeeps ==
    ASSUME AccountsInv, NEW w \in Workers, WriteUser(w)
    PROVE  AccountsInv'
<1>1. held[w] \in Copy /\ job[w] \in Requests /\ Inviter(w) /\ held' = held
  BY DEF WriteUser, AccountsInv, WorkerTypes, Holding
<1>2. CASE held[w].id \notin Present
  <2>1. GoOn(w, "reloadUser") /\ UNCHANGED <<rows, byPhone>>
    BY <1>2 DEF WriteUser, rows
  <2>2. WorkerTypes(w)' /\ WorkerPins(w)'
    BY <1>1, <2>1, GoOnMoves DEF WorkerTypes, WorkerPins, Holding, Credited, Op, Inviter
  <2> QED BY <1>1, <2>1, <2>2, GoOnKeeps DEF AccountsInv, TypeOK, Steps
<1>3. CASE held[w].id \in Present
  <2>1. /\ users' = [users EXCEPT ![held[w].id].phone = held[w].phone]
        /\ Wrote(w, "reloadUser") /\ UNCHANGED <<credentials, tenants, inForce>>
    BY <1>3 DEF WriteUser
  <2>2. users' \in [Ids -> User \cup {Nothing, Gone}] /\ Present \subseteq Present'
    BY <1>1, <1>3, <2>1 DEF AccountsInv, TypeOK, Present, User, Copy
  <2>3. WorkerTypes(w)' /\ WorkerPins(w)'
    BY <1>1, <2>1, WroteMoves DEF WorkerTypes, WorkerPins, Holding, Credited, Op, Inviter
  <2> QED BY <1>1, <2>1, <2>2, <2>3, WroteKeeps DEF AccountsInv, TypeOK, Steps
<1> QED BY <1>2, <1>3

\* Where a credential may be set, and what comes then.
LEMMA SetCredentialKeeps ==
    ASSUME AccountsInv, NEW w \in Workers, NEW step, SetCredential(w, step),
           at[w] \in {"saveCredential", "insertCredential", "saveNew"},
           held[w].id \in Present,
           step \in {"saveNew", AfterCredential[Op(w)]}
    PROVE  AccountsInv'
<1>1. held[w] \in Copy /\ job[w] \in Requests /\ held' = held /\ users' = users
  BY DEF SetCredential, AccountsInv, WorkerTypes, Holding
<1>2. /\ step \in {"saveNew", "findTenancy", "sendSms", "answer"}
      /\ step = "findTenancy" => Inviter(w)
      /\ step = "sendSms" => ~Inviter(w)
  BY <1>1, RequestFields DEF AfterCredential, Op, Inviter
<1>3. /\ Present \subseteq Present' /\ credentials \subseteq credentials'
      /\ credentials' \cup tenants' \subseteq Present'
      /\ held[w].id \in credentials' /\ w \in inForce'
  BY <1>1 DEF SetCredential, AccountsInv, TypeOK, Present
<1>4. inForce' \subseteq {v \in Workers : held'[v] # Nothing}
  BY <1>1, AccountsAssumption DEF SetCredential, AccountsInv, TypeOK
<1>5. WorkerTypes(w)' /\ WorkerPins(w)'
  BY <1>1, <1>2, <1>3, WroteMoves
     DEF SetCredential, WorkerTypes, WorkerPins, Holding, Credited, Op, Inviter
<1> QED BY <1>1, <1>2, <1>3, <1>4, <1>5, WroteKeeps DEF SetCredential, AccountsInv, TypeOK, Steps

LEMMA CredentialStepKeeps ==
    ASSUME AccountsInv, NEW w \in Workers,
           SaveCredential(w) \/ InsertCredential(w) \/ SaveNew(w)
    PROVE  AccountsInv'
<1>1. CASE SaveCredential(w)
  <2>1. held[w].id \in Present
    BY <1>1 DEF SaveCredential, AccountsInv, TypeOK, WorkerPins, Credited
  <2> QED BY <1>1, <2>1, SetCredentialKeeps DEF SaveCredential
<1>2. CASE InsertCredential(w)
  <2>1. CASE Refuse(w)
    BY <2>1, EndKeeps DEF Refuse, AccountsInv, TypeOK
  <2>2. CASE held[w].id \in Present /\ SetCredential(w, "saveNew")
    BY <1>2, <2>2, SetCredentialKeeps DEF InsertCredential
  <2> QED BY <1>2, <2>1, <2>2 DEF InsertCredential
<1>3. CASE SaveNew(w)
  <2>1. /\ held[w] \in Copy /\ job[w] \in Requests
        /\ held[w].id \in credentials /\ held[w].id \in Present
    BY <1>3 DEF SaveNew, AccountsInv, TypeOK, WorkerTypes, WorkerPins, Holding, Credited
  <2>2. CASE SetCredential(w, AfterCredential[Op(w)])
    BY <1>3, <2>1, <2>2, SetCredentialKeeps DEF SaveNew
  <2>3. CASE w \in inForce /\ GoOn(w, AfterCredential[Op(w)]) /\ UNCHANGED <<rows, byPhone, held>>
    <3>1. /\ AfterCredential[Op(w)] \in {"findTenancy", "sendSms", "answer"}
          /\ AfterCredential[Op(w)] = "findTenancy" => Inviter(w)
          /\ AfterCredential[Op(w)] = "sendSms" => ~Inviter(w)
      BY <2>1, RequestFields DEF AfterCredential, Op, Inviter
    <3>2. WorkerTypes(w)' /\ WorkerPins(w)'
      BY <2>1, <2>3, <3>1, GoOnMoves DEF WorkerTypes, WorkerPins, Holding, Credited, Op, Inviter, rows
    <3> QED BY <2>3, <3>1, <3>2, GoOnKeeps DEF AccountsInv, TypeOK, Steps
  <2> QED BY <1>3, <2>2, <2>3 DEF SaveNew
<1> QED BY <1>1, <1>2, <1>3

LEMMA InsertTenancyKeeps ==
    ASSUME AccountsInv, NEW w \in Workers, InsertTenancy(w)
    PROVE  AccountsInv'
<1>1. CASE Refuse(w)
  BY <1>1, EndKeeps DEF Refuse, AccountsInv, TypeOK
<1>2. CASE /\ held[w].id \in Present
           /\ tenants' = tenants \cup {held[w].id}
           /\ Wrote(w, "sendSms")
           /\ UNCHANGED <<users, credentials, held, inForce>>
  <2>1. /\ held[w] \in Copy /\ job[w] \in Requests /\ Inviter(w)
        /\ held[w].id \in credentials /\ (alone[w] => w \in inForce)
    BY DEF InsertTenancy, AccountsInv, WorkerTypes, WorkerPins, Holding, Credited
  <2>2. Present' = Present
    BY <1>2 DEF Present
  <2>3. WorkerTypes(w)' /\ WorkerPins(w)'
    BY <1>2, <2>1, WroteMoves DEF WorkerTypes, WorkerPins, Holding, Credited, Op, Inviter
  <2> QED BY <1>2, <2>2, <2>3, WroteKeeps DEF AccountsInv, TypeOK, Steps
<1> QED BY <1>1, <1>2 DEF InsertTenancy

-----------------------------------------------------------------------------
(* The beginning of a request, and what happens without a worker.          *)

LEMMA BeginKeeps ==
    ASSUME AccountsInv, NEW w \in Workers, Begin(w)
    PROVE  AccountsInv'
<1> PICK request \in Requests :
      /\ job' = [job EXCEPT ![w] = request]
      /\ Go(w, CASE request.op \in {"createTenantWithUser", "registerUser"} -> "lookup"
                 [] request.op = "createUser" -> "insertUser"
                 [] request.op = "updateUser" -> "updateRow")
      /\ IF request.op = "createTenantWithUser" THEN UNCHANGED others ELSE CountOther
  BY DEF Begin
<1>1. /\ at' \in [Workers -> Steps] /\ job' \in [Workers -> Requests \cup {Nothing}]
      /\ job'[w] = request
      /\ at'[w] \in {"lookup", "insertUser", "updateRow"}
      /\ at'[w] = "lookup" => request.op \in {"createTenantWithUser", "registerUser"}
      /\ at'[w] = "insertUser" => request.op = "createUser"
      /\ at'[w] = "updateRow" => request.op = "updateUser"
  BY RequestFields DEF AccountsInv, TypeOK, Go, Steps
<1>2. others' \in 0..MaxOthers
  BY AccountsAssumption DEF AccountsInv, TypeOK, CountOther
<1>3. TypeOK'
  BY <1>1, <1>2 DEF AccountsInv, TypeOK, Begin, rows, Present
<1>4. WorkerTypes(w)' /\ WorkerPins(w)'
  BY <1>1 DEF WorkerTypes, WorkerPins, Holding, Credited, Op, Inviter
<1>5. \A v \in Workers \ {w} : Spared(v)
  BY DEF AccountsInv, TypeOK, Begin, Go, Spared, rows
<1> QED BY <1>3, <1>4, <1>5, OneMoves

\* A request of one statement: nobody under way is alone any more.
LEMMA InterveneKeeps ==
    ASSUME AccountsInv, Intervene,
           users' \in [Ids -> User \cup {Nothing, Gone}], UNCHANGED credentials,
           credentials' \cup tenants' \subseteq Present'
    PROVE  AccountsInv'
<1>1. others' \in 0..MaxOthers /\ alone' \in [Workers -> BOOLEAN]
  BY AccountsAssumption DEF AccountsInv, TypeOK, Intervene, CountOther
<1>2. TypeOK'
  BY <1>1 DEF AccountsInv, TypeOK, Intervene
<1>3. \A w \in Workers : Spared(w)
  BY DEF AccountsInv, TypeOK, Intervene, Spared
<1> QED BY <1>2, <1>3, SparedKeeps DEF AccountsInv

LEMMA OthersKeep ==
    ASSUME AccountsInv, NEW id \in Ids,
           DeleteUser(id) \/ CreateUnitTenant(id) \/ DeleteUnitTenant(id)
    PROVE  AccountsInv'
<1>1. CASE DeleteUser(id)
  <2>1. /\ users' \in [Ids -> User \cup {Nothing, Gone}]
        /\ credentials' \cup tenants' \subseteq Present'
    BY <1>1, AccountsAssumption DEF DeleteUser, AccountsInv, TypeOK, Present
  <2> QED BY <1>1, <2>1, InterveneKeeps DEF DeleteUser
<1>2. CASE CreateUnitTenant(id)
  BY <1>2, InterveneKeeps DEF CreateUnitTenant, AccountsInv, TypeOK, Present
<1>3. CASE DeleteUnitTenant(id)
  BY <1>3, InterveneKeeps DEF DeleteUnitTenant, AccountsInv, TypeOK, Present
<1> QED BY <1>1, <1>2, <1>3

LEMMA ExpireKeeps ==
    ASSUME AccountsInv, NEW p \in Phones, ExpirePhone(p)
    PROVE  AccountsInv'
<1>1. TypeOK'
  BY DEF AccountsInv, TypeOK, ExpirePhone, rows, Present
<1>2. \A w \in Workers : Spared(w)
  BY DEF ExpirePhone, Spared, rows
<1> QED BY <1>1, <1>2, SparedKeeps DEF AccountsInv

-----------------------------------------------------------------------------

LEMMA StepKeepsAccounts == AccountsInv /\ [Next]_vars => AccountsInv'
<1> SUFFICES ASSUME AccountsInv, [Next]_vars PROVE AccountsInv'
  OBVIOUS
<1>1. ASSUME NEW w \in Workers, Begin(w) \/ Serve(w) \/ Abandon(w)
      PROVE  AccountsInv'
  <2>1. CASE Refuse(w)
    BY <2>1, EndKeeps DEF Refuse, AccountsInv, TypeOK
  <2>2. CASE Begin(w)
    BY <2>2, BeginKeeps
  <2>3. CASE Lookup(w) \/ Query(w) \/ Fill(w)
    BY <2>3, LookupKeeps, QueryKeeps, FillKeeps
  <2>4. CASE InsertUser(w) \/ UpdateRow(w) \/ ReadUser(w) \/ WriteUser(w) \/ ReloadUser(w)
    BY <2>4, InsertUserKeeps, UpdateRowKeeps, ReadUserKeeps, WriteUserKeeps
  <2>5. CASE FindCredential(w) \/ SaveCredential(w) \/ InsertCredential(w) \/ SaveNew(w)
    BY <2>5, FindCredentialKeeps, CredentialStepKeeps
  <2>6. CASE FindTenancy(w) \/ InsertTenancy(w)
    BY <2>6, FindTenancyKeeps, InsertTenancyKeeps
  <2> QED
    BY <1>1, <2>1, <2>2, <2>3, <2>4, <2>5, <2>6 DEF Serve, SendSms, Respond, Abandon
<1>2. ASSUME NEW id \in Ids, DeleteUser(id) \/ CreateUnitTenant(id) \/ DeleteUnitTenant(id)
      PROVE  AccountsInv'
  BY <1>2, OthersKeep
<1>3. ASSUME NEW p \in Phones, ExpirePhone(p)
      PROVE  AccountsInv'
  BY <1>3, ExpireKeeps
<1>4. CASE UNCHANGED vars
  <2>1. TypeOK'
    BY <1>4 DEF AccountsInv, TypeOK, vars, Present
  <2>2. \A w \in Workers : Spared(w)
    BY <1>4 DEF Spared, vars
  <2> QED BY <2>1, <2>2, SparedKeeps DEF AccountsInv
<1> QED BY <1>1, <1>2, <1>3, <1>4 DEF Next

LEMMA InitAccounts == Init => AccountsInv
<1> SUFFICES ASSUME Init PROVE AccountsInv
  OBVIOUS
<1>1. TypeOK
  BY AccountsAssumption DEF Init, TypeOK, Steps, Present
<1>2. \A w \in Workers : WorkerTypes(w) /\ WorkerPins(w)
  BY DEF Init, WorkerTypes, WorkerPins, Holding, Credited
<1> QED BY <1>1, <1>2 DEF AccountsInv

LEMMA AccountsHold == Spec => []AccountsInv
BY InitAccounts, StepKeepsAccounts, PTL DEF Spec

\* The state is well typed, and credentials and tenancies are of users that exist,
\* for any numbers of users, phones, e-mails and workers.
THEOREM TypeCorrect == Spec => []TypeOK
<1>1. AccountsInv => TypeOK
  BY DEF AccountsInv
<1> QED BY <1>1, AccountsHold, PTL

\* Whatever other requests do in the meantime, the account of a PIN that is sent exists
\* and can be signed in to; with the PIN, as a tenant, if no other request wrote.
THEOREM PinAlwaysOpensAccount == Spec => []PinOpensAccount
<1>1. AccountsInv => PinOpensAccount
  BY DEF AccountsInv, WorkerPins, PinOpensAccount, TypeOK, Credited, Inviter, Present
<1> QED BY <1>1, AccountsHold, PTL

\* Whatever Redis holds, an invitation makes a second account for the phone, and a
\* registration one for the e-mail, it has searched for only if another request writes
\* in the middle of it.  (Of the column not searched for nothing is proved: it may be
\* taken.)
THEOREM NeverSecondForSearched == Spec => NoSecondForSearched
<1>1. AccountsInv =>
        \A w \in Workers :
          InsertUser(w) /\ Op(w) # "createUser" /\ alone[w] => Matching(w) = {}
  BY DEF AccountsInv, WorkerPins, InsertUser
<1> QED BY <1>1, AccountsHold, PTL DEF NoSecondForSearched

=============================================================================
