---------------------------- MODULE ApiHandlers ----------------------------
(***************************************************************************)
(* What the methods of the controllers (src/controllers) do with a         *)
(* request: which parts of it they read, when they refuse it, which calls  *)
(* of the services they wait for and how they answer.  A handler is the    *)
(* sequence of its steps and what it does with an exception; HttpRequests  *)
(* runs the steps.  What a service does is the subject of other modules:   *)
(* here a call gives a result, gives nothing, or throws, and a call that   *)
(* throws has changed nothing.                                             *)
(***************************************************************************)
EXTENDS ApiSchemas, Naturals, Sequences

-----------------------------------------------------------------------------
(* The steps.  Reading a part of the request: req.params, the keys of      *)
(* req.body and req.query the handler looks at, or the body as a whole.    *)
Param(p)    == [op |-> "param", name |-> p]
Body(F)     == [op |-> "fields", part |-> "body", fields |-> F]
Query(F)    == [op |-> "fields", part |-> "query", fields |-> F]
WholeBody   == [op |-> "whole"]
(* Keys of the query compared with the text 'true'.                        *)
Text(F)     == [op |-> "text", fields |-> F]

(* Refusing with 400 a request in which something is missing.              *)
NeedBody(F)  == [op |-> "need", part |-> "body", fields |-> F]
NeedQuery(F) == [op |-> "need", part |-> "query", fields |-> F]
NeedParam(p) == [op |-> "needParam", name |-> p]
NeedSome     == [op |-> "needSome"]
NeedFiles    == [op |-> "needFiles"]

(* Awaiting a service: Find may find nothing, List gives a list or a       *)
(* number, Write changes something or throws, Change writes what the       *)
(* request holds into a thing that may not exist.                          *)
Find   == [op |-> "call", writes |-> FALSE, nullable |-> TRUE]
List   == [op |-> "call", writes |-> FALSE, nullable |-> FALSE]
Write  == [op |-> "call", writes |-> TRUE,  nullable |-> FALSE]
Change == [op |-> "call", writes |-> TRUE,  nullable |-> TRUE]
(* A call of a service that throws unless the body has the keys F.         *)
Demanding(F) == [op |-> "dto", fields |-> F]

(* Answering.                                                              *)
sendSuccess    == [op |-> "send", status |-> 200]
sendCreated    == [op |-> "send", status |-> 201]
sendNoContent  == [op |-> "send", status |-> 204]
sendOrNotFound == [op |-> "sendOrNotFound"]

(* await validate(schema)(req, res, next) inside a handler.                *)
Nested(schema) == [op |-> "nested", schema |-> schema]

(* The organizations of the caller: a list for the organization the        *)
(* request names, or for all of the caller's, or [] at once; and the       *)
(* variant that refuses an organization that is not one of the caller's.   *)
ListOfOrganizations   == [op |-> "orgList"]
FilterOfOrganizations == [op |-> "orgFilter"]

NeedUser == [op |-> "needUser"]

(* A handler: its exceptions are caught and answered with handleError,     *)
(* with one status whatever they are, or go to the error middleware.       *)
Try(steps)      == [catch |-> "handleError", steps |-> steps]
TryAuth(steps)  == [catch |-> "handleException", steps |-> steps]
TryElse(status, steps) ==
    [catch |-> "status", status |-> status, steps |-> steps]
Uncaught(steps) == [catch |-> "next", steps |-> steps]

-----------------------------------------------------------------------------
getAll == Try(<<List, sendSuccess>>)
getPaginated == Try(<<Query({"page", "limit"}), List, sendSuccess>>)
getById == Try(<<Param(":id"), Find, sendOrNotFound>>)

-----------------------------------------------------------------------------
(* accessControl                                                           *)

createPermission == Try(<<Body({"name", "description", "category"}), Write,
    sendCreated>>)
updatePermission == Try(<<Param(":permissionId"), WholeBody, Change,
    sendOrNotFound>>)
getPermissionById == Try(<<Param(":permissionId"), Find, sendOrNotFound>>)
deletePermission == Try(<<Param(":permissionId"), Write, sendNoContent>>)

createRole == Try(<<Body({"name", "description"}), Write, sendCreated>>)
updateRole == Try(<<Param(":roleId"), WholeBody, Change, sendOrNotFound>>)
getRoleById == Try(<<Param(":roleId"), Find, sendOrNotFound>>)
(* Mutant: the parameter of another route is read.                         *)
deleteRoleById == Try(<<Param(":id"), Write, sendNoContent>>)
deleteRole == Try(<<Param(":roleId"), Write, sendNoContent>>)

createRolePermission == Try(<<NeedParam(":roleId"),
    NeedBody({"permissionId"}), Write, sendCreated>>)
getAllRolePermissions == Try(<<NeedParam(":roleId"), List, sendSuccess>>)
getRolePermissionByRoleIdAndPermissionId == Try(<<NeedParam(":roleId"),
    NeedParam(":permissionId"), Find, sendOrNotFound>>)
deleteRolePermission == Try(<<NeedParam(":id"), Write, sendNoContent>>)

(* auth: an exception is answered 401 or 500.                              *)
login == TryAuth(<<NeedBody({"identifier", "credential"}), List, sendSuccess>>)
validateToken == TryAuth(<<NeedBody({"token", "type"}), List, sendSuccess>>)
logout == TryAuth(<<NeedBody({"refreshToken"}), Write, sendSuccess>>)
refreshToken == TryAuth(<<NeedBody({"refreshToken"}), List, sendSuccess>>)
getAuthenticatedUser == TryAuth(<<NeedUser, Query({"orgId"}), List,
    sendSuccess>>)

sendSms == TryElse(500, <<Body({"phoneNumber", "message", "action",
    "options"}), Write, sendSuccess>>)

-----------------------------------------------------------------------------
(* users                                                                   *)

createUser == Try(<<NeedBody({"email", "phone", "firstName", "lastName"}),
    Body({"credential", "credentialType", "algorithm"}), Write, sendCreated>>)
registerUser == Try(<<Body({"email", "phone", "firstName", "lastName"}),
    Write, sendCreated>>)
updateUser == Try(<<Param(":userId"), NeedSome, WholeBody, Change,
    sendOrNotFound>>)
getUserById == Try(<<Param(":userId"), List, sendSuccess>>)
getUserByEmail == Try(<<NeedQuery({"email"}), Find, sendOrNotFound>>)
getOrganizationsByUser == Try(<<Param(":userId"), List, sendSuccess>>)
deleteUser == Try(<<Param(":userId"), Write, sendNoContent>>)

addUserRole == Try(<<NeedParam(":userId"), NeedBody({"roleId"}), Write,
    sendSuccess>>)
getUserRoles == Try(<<NeedParam(":userId"), List, sendSuccess>>)
removeUserRole == Try(<<NeedParam(":userId"), NeedParam(":roleId"), Write,
    sendSuccess>>)
removeAllUserRoles == Try(<<NeedParam(":userId"), Write, sendSuccess>>)

-----------------------------------------------------------------------------
(* organizations                                                           *)

createOrganization == Try(<<WholeBody, Write, sendCreated>>)
(* Mutant: the organization is read again after the update.                *)
updateOrganizationAndRead == Try(<<Param(":id"), WholeBody, Write, Find,
    sendOrNotFound>>)
updateOrganization == Try(<<Param(":id"), WholeBody, Write, sendSuccess>>)
getOrganizationById == Try(<<Param(":id"), Find, sendOrNotFound>>)
deleteOrganization == Try(<<Param(":id"), Write, sendNoContent>>)
softDeleteOrganization == Try(<<Param(":id"), Write, sendNoContent>>)
restoreOrganization == Try(<<Param(":id"), Write, sendSuccess>>)
getOrganizationWithRelations == Try(<<Param(":id"), Find, sendOrNotFound>>)

createOrganizationType == Try(<<NeedBody({"name"}), Body({"description",
    "isActive"}), Write, sendCreated>>)
updateOrganizationType == Try(<<Param(":id"), WholeBody, Change,
    sendOrNotFound>>)
getOrganizationTypeById == Try(<<Param(":id"), Find, sendOrNotFound>>)
getOrganizationTypeByName == Try(<<NeedQuery({"name"}), Find, sendOrNotFound>>)
getActiveOrganizationTypes == Try(<<List, sendSuccess>>)
deleteOrganizationType == Try(<<Param(":id"), Write, sendNoContent>>)

(* replaceRoles and removeRoles hand the body on as it is to a service     *)
(* whose DTO has the organization and the user in it.                      *)
addUserToOrganizationWithRoles == Try(<<Param(":organizationId"), WholeBody,
    Write, sendCreated>>)
getMembership == Try(<<Param(":organizationId"), Param(":userId"), Find,
    sendOrNotFound>>)
getOrganizationUserById == Try(<<Param(":id"), Find, sendOrNotFound>>)
replaceRoles == Try(<<WholeBody, Demanding({"organizationId", "userId",
    "roles"}), Write, sendSuccess>>)
removeRoles == Try(<<WholeBody, Demanding({"organizationId", "userId",
    "roles"}), Write, sendSuccess>>)
updateStatus == Try(<<Param(":organizationId"), Param(":userId"),
    Body({"status"}), Write, sendSuccess>>)
softDeleteOrganizationUser == Try(<<Param(":organizationId"),
    Param(":userId"), Write, sendNoContent>>)
restoreOrganizationUser == Try(<<Param(":organizationId"), Param(":userId"),
    Write, sendSuccess>>)
listUsersByOrganization == Try(<<Param(":organizationId"), List, sendSuccess>>)

-----------------------------------------------------------------------------
(* clientApps: an update is a write and then a read of what was written.   *)

createClientApp == Try(<<NeedBody({"name", "status"}), Write, sendCreated>>)
updateClientApp == Try(<<Param(":appId"), WholeBody, Write, Find,
    sendOrNotFound>>)
getClientAppByAppId == Try(<<Param(":appId"), Find, sendOrNotFound>>)
deleteClientApp == Try(<<Param(":appId"), Write, sendNoContent>>)

createClientAppConfig == Try(<<NeedBody({"appId"}), Body({"redirectUris",
    "grantTypes", "scopes", "accessTokenExpiry", "refreshTokenExpiry",
    "pkceRequired", "tokenAlgorithm", "tokenIssuer", "tokenAudience",
    "metadata"}), Write, sendCreated>>)
updateClientAppConfig == Try(<<Param(":appId"), WholeBody, Write, Find,
    sendOrNotFound>>)
getClientAppConfigByAppId == Try(<<Param(":appId"), Find, sendOrNotFound>>)
deleteClientAppConfig == Try(<<Param(":appId"), Write, sendNoContent>>)

-----------------------------------------------------------------------------
(* kycProfile                                                              *)

kycFields == {"type", "requirement", "value", "status", "user", "organization",
              "notes"}

createKycProfile == Try(<<NeedBody({"type", "requirement"}), Body(kycFields),
    Write, sendCreated>>)
updateKycProfile == Try(<<NeedParam(":id"), Body(kycFields), Change,
    sendOrNotFound>>)
getKycProfileById == Try(<<Param(":id"), Find, sendOrNotFound>>)
getKycProfilesByUserId == Try(<<Param(":userId"), List, sendSuccess>>)
getKycProfilesByOrganizationId == Try(<<Param(":organizationId"), List,
    sendSuccess>>)
deleteKycProfile == Try(<<Param(":id"), Write, sendNoContent>>)

createKycRequirement == Try(<<NeedBody({"name", "dataType", "isRequired"}),
    Body({"description", "roleId", "organizationTypeId"}), Write,
    sendCreated>>)
updateKycRequirement == Try(<<Param(":id"), WholeBody, Change,
    sendOrNotFound>>)
getKycRequirementById == Try(<<Param(":id"), Find, sendOrNotFound>>)
deleteKycRequirement == Try(<<Param(":id"), Write, sendNoContent>>)

-----------------------------------------------------------------------------
(* payments: the schema of a write is checked inside the handler.          *)

createPaymentProvider == Try(<<Nested(createPaymentProviderSchema), WholeBody,
    Write, sendCreated>>)
getPaymentProviderByCode == Try(<<NeedParam(":code"), Find, sendOrNotFound>>)
updatePaymentProviderByCode == Try(<<NeedParam(":code"),
    Nested(updatePaymentProviderSchema), WholeBody, Change, sendOrNotFound>>)
deletePaymentProviderByCode == Try(<<NeedParam(":code"), Write,
    sendNoContent>>)
getAllPaymentProviders == Try(<<List, sendSuccess>>)

createConfig == Try(<<Nested(createPaymentProviderConfigSchema), Body({"key",
    "value", "metadata"}), NeedParam(":providerCode"), Write, sendCreated>>)
getConfigsByProviderCode == Try(<<NeedParam(":providerCode"), List,
    sendSuccess>>)
updateConfigByProviderCode == Try(<<NeedParam(":providerCode"),
    NeedParam(":key"), Nested(updatePaymentProviderConfigSchema),
    Body({"value", "metadata"}), Change, sendOrNotFound>>)
deleteConfigByProviderCode == Try(<<NeedParam(":providerCode"),
    NeedParam(":key"), Write, sendNoContent>>)

-----------------------------------------------------------------------------
(* locations                                                               *)

createAddressComponent == Try(<<NeedBody({"type", "value"}), Body({"parentId",
    "metadata"}), Write, sendCreated>>)
updateAddressComponent == Try(<<Param(":id"), NeedSome, WholeBody, Change,
    sendOrNotFound>>)
getAddressComponentById == Try(<<Param(":id"), Find, sendOrNotFound>>)
getByTypeAndValue == Try(<<NeedQuery({"type", "value"}), Find,
    sendOrNotFound>>)
listByTypes == Try(<<NeedQuery({"types"}), List, sendSuccess>>)
getForLocation == Try(<<Param(":locationId"), List, sendSuccess>>)
searchPaginated == Try(<<Query({"q", "type", "parentId", "page", "limit"}),
    List, sendSuccess>>)
deleteAddressComponent == Try(<<Param(":id"), Write, sendNoContent>>)
bulkDelete == Try(<<NeedBody({"ids"}), Write, sendNoContent>>)
move == Try(<<Param(":id"), Body({"newParentId"}), Write, sendSuccess>>)
getChildren == Try(<<Param(":id"), List, sendSuccess>>)
getComponentAncestors == Try(<<Param(":id"), List, sendSuccess>>)
getComponentDescendants == Try(<<Param(":id"), List, sendSuccess>>)
upsertByTypeValueParent == Try(<<NeedBody({"type", "value"}),
    Body({"parentId", "metadata"}), Write, sendSuccess>>)
bulkUpsert == Try(<<NeedBody({"rows"}), Write, sendSuccess>>)

createLink == Try(<<NeedBody({"locationId", "addressComponentId"}), WholeBody,
    Write, sendCreated>>)
updateLink == Try(<<Param(":id"), WholeBody, Change, sendOrNotFound>>)
deleteLink == Try(<<Param(":id"), Write, sendNoContent>>)
bulkDeleteLinks == Try(<<NeedBody({"ids"}), Write, sendSuccess>>)
getLinkById == Try(<<Param(":id"), Find, sendOrNotFound>>)
listByLocation == Try(<<Param(":locationId"), List, sendSuccess>>)
listByAddressComponent == Try(<<Param(":addressComponentId"), List,
    sendSuccess>>)
getPrimaryForLocation == Try(<<Param(":locationId"), Find, sendOrNotFound>>)
reorderSequences == Try(<<Param(":locationId"), NeedBody({"orderedLinkIds"}),
    Write, sendSuccess>>)
upsertLink == Try(<<NeedBody({"locationId", "addressComponentId"}), WholeBody,
    Write, sendSuccess>>)
bulkUpsertLinks == Try(<<NeedBody({"rows"}), Write, sendSuccess>>)
clearCenterPoint == Try(<<Param(":id"), Write, sendSuccess>>)
findComponentsNearPoint == TryElse(400, <<NeedQuery({"lat", "lng",
    "distanceMeters"}), Query({"limit"}), List, sendSuccess>>)

createLocation == Try(<<WholeBody, Write, sendCreated>>)
updateLocation == Try(<<Param(":id"), WholeBody, Write, sendSuccess>>)
deleteLocation == Try(<<Param(":id"), Write, sendNoContent>>)
moveLocation == Try(<<Param(":id"), Body({"newParentId"}), Write,
    sendSuccess>>)
getAncestors == Try(<<Param(":id"), List, sendSuccess>>)
getDescendants == Try(<<Param(":id"), List, sendSuccess>>)

-----------------------------------------------------------------------------
(* storage                                                                 *)

uploadFiles == TryElse(500, <<NeedBody({"provider"}), NeedFiles,
    Body({"category"}), Write, sendCreated>>)
deleteFile == Try(<<NeedBody({"storageKey", "provider"}), Write, sendSuccess>>)
deleteFileByKeyParam == Try(<<NeedParam(":storageKey"),
    NeedQuery({"provider"}), Write, sendNoContent>>)
getSignedUrl == Try(<<NeedQuery({"storageKey", "provider"}), List,
    sendSuccess>>)
getFileById == Try(<<Param(":id"), Find, sendOrNotFound>>)
getPaginatedFiles == Try(<<Query({"page", "limit"}), List, sendSuccess>>)

=============================================================================
