--------------------------- MODULE HttpRequests ---------------------------
(***************************************************************************)
(* One request on its way through the API: the router picks the first      *)
(* route that fits (express, external), the middlewares of the route and   *)
(* then the steps of its handler run one after another, and what they      *)
(* throw is answered by the handler's catch or by the error middleware.    *)
(* The tables ApiSchemas, ApiHandlers, PropertyHandlers and ApiRoutes say  *)
(* which steps a route has; this module says what each kind of step does.  *)
(***************************************************************************)
EXTENDS ApiRoutes, FiniteSetsExt, Functions

VARIABLES
  req,      \* the request: the route its client means, the keys of its body
            \* and query, and what the middlewares have added to it
  route,    \* the route that handles it
  todo,     \* the steps of that route that are left
  found,    \* whether the last service call gave something
  answer,   \* the status of the answer, 0 before there is one
  written,  \* "yes" after a service call that changes something has returned,
            \* "maybe" after one has thrown: before or after its change
  smooth,   \* nothing went wrong outside the code: the caller may do what
            \* he asks for and every call has given a result
  process   \* "up", or "stopping" after a rejection nobody handled

vars == <<req, route, todo, found, answer, written, smooth, process>>

NoRoute == [method |-> "none"]

Steps(r) == r.middlewares \o r.handler.steps
StepsOf(r, op) == {s \in Range(Steps(r)) : s.op = op}
ParamsOf(r) == Range(r.path) \cap ParamSegments

-----------------------------------------------------------------------------
(* Routing.  The value of a path parameter is never the literal segment of *)
(* another route.                                                          *)
Fits(r, target) ==
    /\ r.method = target.method
    /\ Len(r.path) = Len(target.path)
    /\ \A n \in DOMAIN r.path :
          r.path[n] \in ParamSegments \cup {target.path[n]}

Fitting(routes, target) == {n \in DOMAIN routes : Fits(routes[n], target)}

(* Mutant: the last route that fits is called.                             *)
HandlingLast(routes, target) == routes[Max(Fitting(routes, target))]

Handling(routes, target) == routes[Min(Fitting(routes, target))]

-----------------------------------------------------------------------------
(* The requests.  What the client of a route may send: the keys its schema *)
(* has for a part of the request, or those its handler reads when there is *)
(* no schema for the part.                                                 *)
SchemasOf(r) ==
    {s.schema : s \in StepsOf(r, "validate") \cup StepsOf(r, "nested")}
KeysOf(r, part) ==
    {schema[part] : schema \in {s \in SchemasOf(r) : part \in Parts(s)}}

FieldsOf(r, op, part) ==
    UNION {s.fields : s \in {t \in StepsOf(r, op) : t.part = part}}
Needed(r, part) ==
    FieldsOf(r, "need", part)
      \cup (IF part = "query" THEN {}
            ELSE UNION {s.fields : s \in StepsOf(r, "dto")}
                   \cup {s.key : s \in StepsOf(r, "orgRoleBody")})

Most(r, part) ==
    IF KeysOf(r, part) = {}
    THEN FieldsOf(r, "fields", part) \cup Needed(r, part)
    ELSE UNION {k.required \cup k.optional : k \in KeysOf(r, part)}
(* The smallest complete parts: one for every choice the schema leaves.    *)
Least(r, part) ==
    IF KeysOf(r, part) = {} THEN {Needed(r, part)}
    ELSE UNION {IF k.oneOf = {} THEN {k.required}
                ELSE {k.required \cup {f} : f \in UNION k.oneOf} :
                k \in KeysOf(r, part)}
Complete(r, part) ==
    {keys \in {Most(r, part)} \cup Least(r, part) :
        part = "body" /\ StepsOf(r, "needSome") # {} => keys # {}}
(* The complete parts, and those in which one key is missing.              *)
Sent(r, part) ==
    Complete(r, part)
      \cup {least \ {f} : least \in Least(r, part), f \in Most(r, part)}

Request(r, body, query, files) ==
    [target |-> r, body |-> body, query |-> query, files |-> files,
     complete |-> /\ body \in Complete(r, "body")
                  /\ query \in Complete(r, "query")
                  /\ files \/ StepsOf(r, "needFiles") = {},
     user |-> "none", orgId |-> "none", defaulted |-> {}, converted |-> {}]

Init ==
    /\ \E r \in Range(appRoutes) :
       \E body \in Sent(r, "body"), query \in Sent(r, "query") :
         \E files \in IF StepsOf(r, "upload") = {} THEN {FALSE} ELSE BOOLEAN :
           req = Request(r, body, query, files)
    /\ route = NoRoute
    /\ todo = <<>>
    /\ found = FALSE
    /\ answer = 0
    /\ written = "no"
    /\ smooth = TRUE
    /\ process = "up"

-----------------------------------------------------------------------------
(* How a step ends: on to the next one, with an answer that ends the       *)
(* request, or with an exception.                                          *)
Step == Head(todo)
Doing(op) == todo # <<>> /\ Step.op = op
Over == route # NoRoute /\ todo = <<>>

Leave == todo' = <<>>
Proceed == todo' = Tail(todo) /\ UNCHANGED answer
Refuse(status) == Leave /\ answer' = status

(* A refusal that is a matter of who asks or of what is stored.            *)
Deny(status) == Refuse(status) /\ smooth' = FALSE

Errors == {"conflict", "badRequest", "notFound", "unauthorized", "other"}
handleError == [e \in Errors |->
    CASE e = "conflict" -> 409 [] e = "badRequest" -> 400
      [] e = "notFound" -> 404 [] OTHER -> 500]
handleException == [e \in Errors |-> IF e = "unauthorized" THEN 401 ELSE 500]
errorHandler == [handleError EXCEPT !["unauthorized"] = 401]

Caught(h, e) ==
    CASE h.catch = "handleError"     -> handleError[e]
      [] h.catch = "handleException" -> handleException[e]
      [] h.catch = "status"          -> h.status
      [] h.catch = "next"            -> errorHandler[e]

(* A request is answered once: after an answer an exception is only logged. *)
Throw(e) ==
    /\ Leave
    /\ answer' = IF answer # 0 THEN answer
                 ELSE Caught(route.handler, e)

Only == UNCHANGED <<req, route, found, written, process>>

-----------------------------------------------------------------------------
(* The router calls the first route that fits.                             *)
Dispatch ==
    /\ route = NoRoute
    /\ route' = Handling(appRoutes, req.target)
    /\ todo' = Steps(route')
    /\ UNCHANGED <<req, found, answer, written, smooth, process>>

(* validate: every part the schema has is checked; then the values, with   *)
(* the defaults filled in and the conversions done, replace the request's. *)
Given == [params |-> ParamsOf(route), query |-> req.query, body |-> req.body]

Valid(schema) == \A part \in Parts(schema) : Accepts(schema[part], Given[part])

Absent(schema, part) ==
    IF part \in Parts(schema) THEN schema[part].defaults \ Given[part] ELSE {}
Flags(schema) ==
    IF "query" \in Parts(schema) THEN schema.query.flags \cap req.query ELSE {}
(* Mutant: the defaults do not reach the request.                          *)
ValidatedUnassigned(schema) ==
    [req EXCEPT
       !.defaulted = @ \cup Absent(schema, "body"),
       !.converted = @ \cup Flags(schema)]

Validated(schema) ==
    [req EXCEPT
       !.body = @ \cup Absent(schema, "body"),
       !.query = @ \cup Absent(schema, "query"),
       !.defaulted = @ \cup Absent(schema, "body"),
       !.converted = @ \cup Flags(schema)]

ValidateRequest ==
    /\ Doing("validate")
    /\ \/ Valid(Step.schema) /\ req' = Validated(Step.schema) /\ Proceed
       \/ ~Valid(Step.schema) /\ Refuse(400) /\ UNCHANGED req
    /\ UNCHANGED <<route, found, written, smooth, process>>

(* validate called inside a handler: it answers, or it calls next, and the *)
(* next route that fits is none (the 404 of app.ts); either way it returns *)
(* and the handler goes on.                                                *)
ValidateInside ==
    /\ Doing("nested")
    /\ todo' = Tail(todo)
    /\ \/ Valid(Step.schema) /\ req' = Validated(Step.schema) /\ answer' = 404
       \/ ~Valid(Step.schema) /\ answer' = 400 /\ UNCHANGED req
    /\ UNCHANGED <<route, found, written, smooth, process>>

(* authenticate: the token, then the roles of the user, whose failure is a *)
(* failed authentication, then his organizations, whose failure is not.    *)
AuthenticateUser ==
    /\ Doing("authenticate")
    /\ \/ /\ \E user \in {"member", "stranger"} :
               /\ req' = [req EXCEPT !.user = user]
               /\ smooth' = (smooth /\ user = "member")
          /\ Proceed
       \/ Deny(401) /\ UNCHANGED req
    /\ UNCHANGED <<route, found, written, process>>

(* authorize: no user or no roles, the policy's answer, or no policy.      *)
AuthorizeUser ==
    /\ Doing("authorize")
    /\ \/ req.user # "none" /\ Proceed /\ UNCHANGED smooth
       \/ \E status \in {401, 403, 500} : Deny(status)
    /\ Only

(* orgScope: the organization the query or a header names, if any.         *)
ScopeOrganization ==
    /\ Doing("orgScope")
    /\ \/ Proceed /\ UNCHANGED <<req, smooth>>
       \/ /\ req' = [req EXCEPT !.orgId = "mine"]
          /\ Proceed /\ UNCHANGED smooth
       \/ /\ req.user # "member"
          /\ req' = [req EXCEPT !.orgId = "other"]
          /\ Proceed /\ UNCHANGED smooth
       \/ /\ req.user = "member"
          /\ Deny(403) /\ UNCHANGED req
    /\ UNCHANGED <<route, found, written, process>>

(* requireOrgRoleFromBody.                                                 *)
RequireRoleFromBody ==
    /\ Doing("orgRoleBody")
    /\ \/ req.user = "none" /\ Deny(403)
       \/ /\ req.user # "none"
          /\ Step.key \notin req.body
          /\ Refuse(400) /\ UNCHANGED smooth
       \/ /\ req.user # "none"
          /\ Step.key \in req.body
          /\ \/ req.user = "member" /\ Proceed /\ UNCHANGED smooth
             \/ Deny(403)
    /\ Only

(* requireOrgRoleForProperty: the property is looked for outside the try,  *)
(* and the rejection of an async middleware goes to the process.           *)
RequireRoleForProperty ==
    /\ Doing("orgRoleProperty")
    /\ \/ req.user = "none" /\ Deny(403) /\ UNCHANGED process
       \/ /\ req.user # "none"
          /\ Step.name \notin ParamsOf(route)
          /\ Refuse(400) /\ UNCHANGED <<smooth, process>>
       \/ /\ req.user # "none"
          /\ Step.name \in ParamsOf(route)
          /\ \/ req.user = "member" /\ Proceed /\ UNCHANGED <<smooth, process>>
             \/ /\ \E status \in {400, 403, 404} : Deny(status)
                /\ UNCHANGED process
             \/ /\ process' = "stopping"
                /\ smooth' = FALSE
                /\ Leave /\ UNCHANGED answer
    /\ UNCHANGED <<req, route, found, written>>

(* upload.array of multer: its errors go to the error middleware.          *)
ReceiveFiles ==
    /\ Doing("upload")
    /\ \/ Proceed /\ UNCHANGED smooth
       \/ Deny(500)
    /\ Only

-----------------------------------------------------------------------------
(* The steps of the handlers.                                              *)
ReadPart ==
    /\ \E op \in {"param", "fields", "whole", "text"} : Doing(op)
    /\ Proceed
    /\ UNCHANGED smooth /\ Only

Lacks(s) ==
    CASE s.op = "need"      -> ~(s.fields \subseteq Given[s.part])
      [] s.op = "needParam" -> s.name \notin ParamsOf(route)
      [] s.op = "needSome"  -> req.body = {}
      [] s.op = "needFiles" -> ~req.files

CheckPart ==
    /\ \E op \in {"need", "needParam", "needSome", "needFiles"} : Doing(op)
    /\ IF Lacks(Step) THEN Refuse(400) ELSE Proceed
    /\ UNCHANGED smooth /\ Only

CheckUser ==
    /\ Doing("needUser")
    /\ IF req.user = "none" THEN Refuse(401) ELSE Proceed
    /\ UNCHANGED smooth /\ Only

(* A service call gives a result, nothing, or an exception.  One that      *)
(* writes may throw after it has committed (the cache is out of reach, or  *)
(* what it goes on to read is not there).                                  *)
CallService ==
    /\ Doing("call")
    /\ \/ /\ found' = TRUE
          /\ written' = IF Step.writes THEN "yes" ELSE written
          /\ Proceed /\ UNCHANGED smooth
       \/ /\ Step.nullable
          /\ found' = FALSE
          /\ smooth' = FALSE
          /\ Proceed /\ UNCHANGED written
       \/ /\ \E e \in Errors : Throw(e)
          /\ smooth' = FALSE
          /\ written' = IF Step.writes /\ written = "no" THEN "maybe" ELSE written
          /\ UNCHANGED found
    /\ UNCHANGED <<req, route, process>>

CheckBody ==
    /\ Doing("dto")
    /\ IF Step.fields \subseteq req.body THEN Proceed ELSE Throw("other")
    /\ UNCHANGED smooth /\ Only

(* The lists for the caller's organizations.                               *)
ListOrganizations ==
    /\ Doing("orgList")
    /\ \/ Proceed /\ UNCHANGED smooth
       \/ /\ req.orgId # "none" \/ req.user = "member"
          /\ \E e \in Errors : Throw(e)
          /\ smooth' = FALSE
    /\ found' = TRUE
    /\ UNCHANGED <<req, route, written, process>>

FilterOrganizations ==
    /\ Doing("orgFilter")
    /\ \/ Proceed /\ UNCHANGED smooth
       \/ /\ req.user = "member"
          /\ \/ "orgIds" \in req.query /\ Deny(403)
             \/ (\E e \in Errors : Throw(e)) /\ smooth' = FALSE
    /\ found' = TRUE
    /\ UNCHANGED <<req, route, written, process>>

(* Sending an answer after another one throws, and what is thrown then is  *)
(* only logged.                                                            *)
Send(status) ==
    /\ todo' = Tail(todo)
    /\ answer' = IF answer # 0 THEN answer ELSE status

Respond ==
    /\ \/ Doing("send") /\ Send(Step.status)
       \/ Doing("sendOrNotFound") /\ Send(IF found THEN 200 ELSE 404)
    /\ UNCHANGED smooth /\ Only

Next ==
    \/ Dispatch
    \/ ValidateRequest
    \/ ValidateInside
    \/ AuthenticateUser
    \/ AuthorizeUser
    \/ ScopeOrganization
    \/ RequireRoleFromBody
    \/ RequireRoleForProperty
    \/ ReceiveFiles
    \/ ReadPart
    \/ CheckPart
    \/ CheckUser
    \/ CallService
    \/ CheckBody
    \/ ListOrganizations
    \/ FilterOrganizations
    \/ Respond

(* The event loop runs every callback that is due.                         *)
Spec == Init /\ [][Next]_vars /\ WF_vars(Next)

-----------------------------------------------------------------------------
(* Properties.                                                             *)

Statuses == {200, 201, 204, 400, 401, 403, 404, 409, 500}

(* Every request is in a state the code can give it.                       *)
TypeOK ==
    /\ req.target \in Range(appRoutes)
    /\ req.user \in {"none", "member", "stranger"}
    /\ req.orgId \in {"none", "mine", "other"}
    /\ req.converted \subseteq req.query
    /\ req.defaulted \subseteq req.body
    /\ IF route = NoRoute THEN todo = <<>>
       ELSE \E n \in 0..Len(Steps(route)) :
              todo = SubSeq(Steps(route), n + 1, Len(Steps(route)))
    /\ answer \in Statuses \cup {0}
    /\ {found, smooth, req.complete, req.files} \subseteq BOOLEAN
    /\ written \in {"no", "maybe", "yes"}
    /\ process \in {"up", "stopping"}

Named(r) == <<r.method, r.path>>

Component == <<"locations", "components">>

(* The literal paths that are registered after a parameter of the same     *)
(* length: the route of the parameter answers them.                        *)
Shadowed ==
    {<<"GET", <<"users", "email">>>>,
     <<"GET", <<"organization-types", "name">>>>,
     <<"GET", <<"properties", "listed">>>>,
     <<"GET", <<"properties", "config">>>>,
     <<"GET", Component \o <<"near">>>>,
     <<"PUT", Component \o <<"upsert">>>>,
     <<"PUT", Component \o <<"bulk-upsert">>>>,
     <<"DELETE", Component \o <<"bulk">>>>,
     <<"PUT", <<"locations", "address", "components", "upsert">>>>}

(* A request is handled by the route its client means, whatever the order  *)
(* the routers are mounted and the routes registered in, but for the nine  *)
(* shadowed ones.                                                          *)
ReachesItsRoute ==
    route # NoRoute => route = req.target \/ Named(req.target) \in Shadowed

(* The handlers that succeed without looking at what the path names: they  *)
(* read another parameter, which is undefined, or take the same thing from *)
(* the body or not at all.                                                 *)
Unread ==
    {<<method, <<"permissions", ":permissionIdentifier">>>> :
        method \in {"GET", "PUT", "DELETE"}}
    \cup {<<method, <<"locations", ":locationId">>>> :
            method \in {"GET", "DELETE"}}
    \cup {<<"GET", <<"locations", ":locationId", list>>>> :
            list \in {"children", "ancestors", "descendants"}}
    \cup {<<"POST", <<"properties", ":propertyId", parts>>>> :
            parts \in {"addresses", "owners", "staff"}}
    \cup {<<"GET", <<"properties">> \o payments \o <<"range">>>>}

(* A success is about what the path names: the handler has read the last   *)
(* parameter of the path.                                                  *)
ActsOnItsResource ==
    Over /\ answer \in 200..299 /\ Named(route) \notin Unread =>
        LET path == route.path
            places == {n \in DOMAIN path : path[n] \in ParamSegments}
            read == {s.name : s \in StepsOf(route, "param")
                                      \cup StepsOf(route, "needParam")}
        IN places = {} \/ path[Max(places)] \in read

(* What a handler reads can arrive: no key it reads is one its route's     *)
(* schema refuses, and no flag it compares with the text 'true' has been   *)
(* converted to a Boolean before.  The client app's configuration and the  *)
(* flags of the list of units cannot.                                      *)
FieldsArrive ==
    /\ (\E op \in {"fields", "need"} : Doing(op)) =>
         \/ \A k \in KeysOf(route, Step.part) :
               Step.fields \subseteq k.required \cup k.optional
         \/ Named(route) = <<"POST", <<"apps", ":appId", "config">>>>
    /\ Doing("text") =>
         \/ Step.fields \cap req.converted = {}
         \/ Named(route) = <<"GET", <<"properties", ":propertyId", "units">>>>

(* The handlers that check the schema themselves.                          *)
CheckedInside ==
    {<<"POST", <<"payment-providers">>>>,
     <<"PUT", <<"payment-providers", ":code">>>>,
     <<"POST", <<"payment-configs", ":providerCode", "configs">>>>,
     <<"PUT", <<"payment-configs", ":providerCode", "configs", ":key">>>>}

(* The routes no request can pass: their schema wants a parameter the path *)
(* does not have, or forbids a key that is needed further on, or the       *)
(* handler needs a parameter the path does not have.                       *)
Impassable ==
    {<<"PUT", <<"locations", ":locationId">>>>,
     <<"POST", <<"locations", ":locationId", "move">>>>,
     <<"GET", <<"properties", ":propertyId", "units", ":unitId", "tenants",
                "status", ":status">>>>,
     <<"POST", <<"apps", ":appId", "config">>>>,
     <<"DELETE", <<"roles", ":roleId", ":permissionId">>>>}
    \cup {<<method, <<"organizations", ":organizationId", "users", ":userId",
                      "roles">>>> : method \in {"PUT", "PATCH"}}

(* A complete request of a caller who may make it, whose service calls all *)
(* succeed, is answered with success: no schema, middleware and handler of *)
(* one route contradict each other, but for those listed above.            *)
WellFormedServed ==
    Over /\ req.complete /\ smooth =>
        \/ answer \in 200..299
        \/ Named(route) \in CheckedInside \cup Impassable
        \/ Named(req.target) \in Shadowed

(* The updates that read what they have written: the reading may fail.     *)
WrittenThenRead ==
    {<<"PUT", <<"apps", ":appId">>>>,
     <<"PUT", <<"apps", ":appId", "config">>>>}

(* A handler tells a client of an error only before its writes: once a     *)
(* service call that writes has returned, nothing the handler still does   *)
(* (checks, further calls, another answer) turns the request into an       *)
(* error, but for the routes listed.  Of the call that writes and throws   *)
(* itself nothing is said: whether it had committed is a matter of its     *)
(* service, see NoErrorAfterWriting of CachedServices.                     *)
ErrorsBeforeWrites ==
    Over /\ answer >= 400 /\ written = "yes" =>
        Named(route) \in CheckedInside \cup WrittenThenRead

(* An update writes what the client has sent and no default of the schema; *)
(* the status of a KYC profile is the exception.                           *)
UpdatesOnlyWhatWasSent ==
    /\ Doing("call") /\ Step.writes /\ req.defaulted # {}
    /\ route.method \in {"PUT", "PATCH"}
    => Named(route) = <<"PUT", <<"kyc", "profiles", ":id">>>>

(* Every request is answered, or takes the process down.                   *)
Answered == route = NoRoute ~> answer # 0 \/ process = "stopping"

=============================================================================
