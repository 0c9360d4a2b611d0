----------------------------- MODULE ApiSchemas -----------------------------
(***************************************************************************)
(* The Joi schemas the routes validate requests with (src/validations).    *)
(* A schema is a record with a field for each part of the request it       *)
(* constrains ("params", "query", "body"); of a part it keeps which keys   *)
(* must be there and which may: Joi refuses every other key.  The formats  *)
(* of the values are left out, and so is what is inside a nested object.   *)
(* A path parameter is written as it is in a route's path, with its colon. *)
(***************************************************************************)
EXTENDS FiniteSets

(* Keys(R, O): the keys R are required and the keys O optional.            *)
Keys(R, O) == [required |-> R, optional |-> O,
               defaults |-> {}, flags |-> {}, oneOf |-> {}]

(* The keys D of k, when missing, are filled in with a default value.      *)
Defaulting(k, D) == [k EXCEPT !.defaults = D]

(* The keys F of k arrive as text and are converted to Booleans.           *)
Converting(k, F) == [k EXCEPT !.flags = F]

(* At least one key of every set of S must be there: which one is up to    *)
(* the value of another key.                                               *)
Needing(k, S) == [k EXCEPT !.oneOf = S]

Parts(schema) == DOMAIN schema

(* Joi.object(part).validate: nothing required is missing, nothing else is *)
(* there.                                                                  *)
Accepts(k, given) == /\ k.required \subseteq given
                     /\ given \subseteq k.required \cup k.optional
                     /\ \A choice \in k.oneOf : choice \cap given # {}

Id == Keys({":id"}, {})

-----------------------------------------------------------------------------
(* accessControl                                                           *)

createPermissionSchema == [body |-> Keys({"name"}, {"description", "category"})]

createRolePermissionSchema == [body |-> Keys({"roleId", "permissionId"}, {})]

createRoleSchema == [body |-> Keys({"name"}, {"description"})]
updateRoleSchema == [params |-> Keys({":roleId"}, {}),
                     body |-> Keys({}, {"name", "description", "isActive"})]
getRoleSchema == [params |-> Keys({":roleId"}, {})]
deleteRoleSchema == [params |-> Keys({":roleId"}, {})]

(* users                                                                   *)

assignRoleSchema ==
    [params |-> Keys({":userId"}, {}),
     body |-> Keys({"roleId"}, {"assignedBy", "expiresAt", "notes"})]

registerUserSchema ==
    [body |-> Defaulting(Keys({"firstName", "lastName", "email", "phone"},
        {"status", "credential", "credentialType", "algorithm"}), {"status"})]
createUserSchema ==
    [body |-> Defaulting(
        Keys({"firstName", "lastName", "email", "phone", "credential"},
             {"status", "credentialType", "algorithm"}), {"status"})]
updateUserSchema ==
    [params |-> Keys({":userId"}, {}),
     body |-> Keys({}, {"firstName", "lastName", "email", "phone", "status"})]

(* organizations                                                           *)

createOrganizationSchema ==
    [body |-> Defaulting(Keys({"name"},
        {"description", "isActive", "typeId", "config", "metadata"}), {"isActive"})]
updateOrganizationSchema ==
    [params |-> Id,
     body |-> Keys({}, {"name", "description", "isActive", "config", "metadata"})]
getOrganizationByIdSchema == [params |-> Id]
deleteOrganizationSchema == [params |-> Id]
softDeleteOrganizationSchema == [params |-> Id]
restoreOrganizationSchema == [params |-> Id]
getOrganizationWithRelationsSchema == [params |-> Id]

getOrganizationTypeByIdSchema == [params |-> Id]
getOrganizationTypeByNameSchema == [query |-> Keys({"name"}, {})]
deleteOrganizationTypeSchema == [params |-> Id]

Member == Keys({":organizationId", ":userId"}, {})

addUserToOrgWithRolesSchema ==
    [params |-> Keys({":organizationId"}, {}),
     body |-> Keys({"userId"}, {"roles", "status"})]
getMembershipSchema == [params |-> Member]
updateStatusSchema == [params |-> Member, body |-> Keys({"status"}, {})]
replaceRolesSchema == [params |-> Member, body |-> Keys({"roles"}, {})]
removeRolesSchema == [params |-> Member, body |-> Keys({"roles"}, {})]
orgUserIdSchema == [params |-> Id]

(* clientApps                                                              *)

(* Mutant: no default for the status the handler wants.                    *)
createClientAppUndefaulted == [body |-> Keys({"name"}, {"status"})]
createClientAppSchema ==
    [body |-> Defaulting(Keys({"name"}, {"status"}), {"status"})]
updateClientAppSchema ==
    [params |-> Keys({":appId"}, {}), body |-> Keys({}, {"name", "status"})]

createApplicationConfigSchema ==
    [params |-> Keys({":appId"}, {}),
     body |-> Keys({"redirectUris", "grantTypes", "scopes", "accessTokenExpiry",
                    "refreshTokenExpiry"},
                   {"pkceRequired", "tokenAlgorithm", "tokenIssuer",
                    "tokenAudience", "metadata"})]
updateApplicationConfigSchema ==
    [params |-> Keys({":appId"}, {}),
     body |-> Keys({}, {"redirectUris", "grantTypes", "scopes",
                        "accessTokenExpiry", "refreshTokenExpiry",
                        "pkceRequired", "tokenAlgorithm", "tokenIssuer",
                        "tokenAudience", "metadata"})]

(* kycProfile                                                              *)

createKycProfileSchema ==
    [body |-> Needing(Defaulting(
        Keys({"type", "requirement"},
             {"value", "status", "user", "organization", "notes"}), {"status"}),
        {{"user", "organization"}})]
updateKycProfileSchema ==
    [params |-> Id,
     body |-> Defaulting(
        Keys({}, {"type", "requirement", "value", "status", "user",
                  "organization", "notes"}), {"status"})]

createKycRequirementSchema ==
    [body |-> Defaulting(Keys({"name", "dataType"},
        {"description", "isRequired", "roleId", "organizationTypeId"}),
        {"isRequired"})]
(* Mutant: the default of the creation, copied.                            *)
updateKycRequirementDefaulted ==
    [params |-> Id,
     body |-> Defaulting(
        Keys({}, {"name", "description", "dataType", "isRequired", "roleId",
                  "organizationTypeId"}), {"isRequired"})]
updateKycRequirementSchema ==
    [params |-> Id,
     body |-> Keys({}, {"name", "description", "dataType", "isRequired",
                        "roleId", "organizationTypeId"})]

(* payments                                                                *)

createPaymentProviderConfigSchema ==
    [params |-> Keys({":providerCode"}, {}),
     body |-> Keys({"key", "value"}, {"metadata"})]
updatePaymentProviderConfigSchema ==
    [params |-> Keys({":providerCode", ":key"}, {}),
     body |-> Keys({"value"}, {"metadata"})]
createPaymentProviderSchema ==
    [body |-> Keys({"paymentProviderCode", "name"}, {"metadata"})]
updatePaymentProviderSchema ==
    [params |-> Keys({":code"}, {}), body |-> Keys({}, {"name", "metadata"})]

-----------------------------------------------------------------------------
(* locations                                                               *)

createAddressComponentSchema ==
    [body |-> Keys({"type", "value"}, {"parentId", "metadata"})]
updateAddressComponentSchema ==
    [params |-> Id,
     body |-> Keys({}, {"type", "value", "parentId", "metadata"})]
getAddressComponentByIdSchema == [params |-> Id]
getByTypeAndValueSchema == [query |-> Keys({"type", "value"}, {})]
listByTypesSchema == [query |-> Keys({"types"}, {})]
getForLocationSchema == [params |-> Keys({":locationId"}, {})]
searchPaginatedSchema ==
    [query |-> Keys({}, {"q", "type", "parentId", "page", "limit"})]
deleteAddressComponentSchema == [params |-> Id]
bulkDeleteAddressComponentsSchema == [body |-> Keys({"ids"}, {})]
moveAddressComponentSchema == [params |-> Id, body |-> Keys({"newParentId"}, {})]
getChildrenSchema == getAddressComponentByIdSchema
getAncestorsSchema == getAddressComponentByIdSchema
getDescendantsSchema == getAddressComponentByIdSchema
upsertByTypeValueParentSchema ==
    [body |-> Keys({"type", "value"}, {"parentId", "metadata"})]
bulkUpsertAddressComponentsSchema == [body |-> Keys({"rows"}, {})]

createLinkSchema ==
    [body |-> Keys({"locationId", "addressComponentId"},
        {"label", "sequence", "isPrimary", "centerPoint", "metadata"})]
updateLinkSchema ==
    [params |-> Id,
     body |-> Keys({}, {"locationId", "addressComponentId", "label", "sequence",
                        "isPrimary", "centerPoint", "metadata",
                        "clearCenterPoint"})]
deleteLinkSchema == [params |-> Id]
bulkDeleteLinksSchema == [body |-> Keys({"ids"}, {})]
getLinkByIdSchema == [params |-> Id]
listByLocationSchema == [params |-> Keys({":locationId"}, {})]
listByAddressComponentSchema == [params |-> Keys({":addressComponentId"}, {})]
getPrimaryForLocationSchema == [params |-> Keys({":locationId"}, {})]
reorderSequencesSchema ==
    [params |-> Keys({":locationId"}, {}), body |-> Keys({"orderedLinkIds"}, {})]
upsertLinkSchema ==
    [body |-> Keys({"locationId", "addressComponentId"},
        {"label", "sequence", "isPrimary", "centerPoint", "metadata"})]
bulkUpsertLinksSchema == [body |-> Keys({"rows"}, {})]
clearCenterPointSchema == [params |-> Id]
findComponentsNearPointSchema ==
    [query |-> Keys({"lat", "lng", "distanceMeters"}, {"limit"})]

createLocationSchema ==
    [body |-> Keys({"localAreaName", "county"},
        {"town", "street", "coverageDetails", "parentId", "centerPoint",
         "geofence", "metadata", "components"})]
updateLocationSchema ==
    [params |-> Id,
     body |-> Keys({}, {"localAreaName", "county", "town", "street",
                        "coverageDetails", "parentId", "centerPoint",
                        "geofence", "metadata", "clearCenterPoint",
                        "clearGeofence", "components"})]
moveLocationSchema == [params |-> Id, body |-> Keys({"newParentId"}, {})]

-----------------------------------------------------------------------------
(* properties                                                              *)

OfProperty == Keys({":propertyId"}, {})
OneOfProperty == Keys({":propertyId", ":id"}, {})
OfUnit == Keys({":propertyId", ":unitId"}, {})
OneOfUnit == Keys({":propertyId", ":unitId", ":id"}, {})
OfLease == Keys({":propertyId", ":unitId", ":leaseId"}, {})

unitKeys == {"name", "floor", "area", "description", "isListed", "amenities",
             "metadata", "status"}
createUnitSchema == [params |-> OfProperty, body |-> Keys({"unitNumber"}, unitKeys)]
updateUnitSchema ==
    [params |-> OneOfProperty,
     body |-> Keys({}, unitKeys \cup {"unitNumber", "tenantId"})]
unitFlags == {"onlyListed", "onlyAvailable", "onlyOccupied", "includeLeases",
              "includeRequests"}
listUnitsSchema ==
    [params |-> OfProperty,
     query |-> Converting(
        Keys({}, {"page", "limit", "orderBy", "orderDir", "search"} \cup unitFlags),
        unitFlags)]
(* Mutant: a key the handler reads is left out.                            *)
searchUnitsUnlimited ==
    [params |-> OfProperty, query |-> Keys({"query"}, {})]
searchUnitsSchema ==
    [params |-> OfProperty, query |-> Keys({"query"}, {"limit"})]

createTenantSchema ==
    [params |-> OfUnit, body |-> Keys({"userId", "status"}, {"kyc"})]
createTenantWithUserSchema ==
    [params |-> OfUnit, body |-> Keys({"user"}, {"password", "credentialExpiry"})]
updateTenantSchema == [params |-> OneOfUnit, body |-> Keys({}, {"status", "kyc"})]
getTenantsByStatusSchema == [params |-> Keys({":propertyId", ":status"}, {})]

createRequestSchema ==
    [params |-> OfProperty,
     body |-> Keys({"requesterId", "title", "description"},
        {"unitId", "assigneeId", "priority", "status", "attachments", "metadata"})]
updateRequestSchema ==
    [params |-> OneOfProperty,
     body |-> Keys({}, {"assigneeId", "status", "priority", "description"})]
getRequestsByStatusSchema == [params |-> Keys({":propertyId", ":status"}, {})]
getRecentRequestsSchema ==
    [params |-> OfProperty, query |-> Defaulting(Keys({}, {"days"}), {"days"})]

leaseKeys == {"leaseType", "chargeType", "paymentFrequency", "firstPaymentDate",
              "status", "esignatures", "signedDocumentUrl", "contractHash",
              "terms", "metadata"}
createLeaseAgreementSchema ==
    [params |-> OfUnit,
     body |-> Keys({"unitId", "tenantId", "organizationId", "startDate",
                    "endDate", "amount"}, leaseKeys \cup {"landlordId"})]
updateLeaseAgreementSchema ==
    [params |-> OneOfUnit,
     body |-> Keys({}, leaseKeys \cup {"startDate", "endDate", "amount"})]
extendLeaseAgreementSchema ==
    [params |-> OneOfUnit, body |-> Keys({"newEndDate"}, {"amount"})]
terminateLeaseAgreementSchema ==
    [params |-> OneOfUnit, body |-> Keys({"terminationDate"}, {"reason"})]

createPaymentSchema ==
    [params |-> OfLease,
     body |-> Keys({"tenantId", "amount", "paidAt", "typeCode"}, {"metadata"})]
updatePaymentSchema ==
    [params |-> Keys({":propertyId", ":unitId", ":leaseId", ":id"}, {}),
     body |-> Keys({}, {"amount", "paidAt", "metadata"})]
getPaymentsInDateRangeSchema ==
    [params |-> OfLease, query |-> Keys({"start", "end"}, {})]

-----------------------------------------------------------------------------
(* storage                                                                 *)

uploadFilesSchema == [body |-> Keys({"provider", "category"}, {})]
deleteFileSchema == [body |-> Keys({"storageKey", "provider"}, {})]
deleteFileByKeySchema ==
    [params |-> Keys({":storageKey"}, {}), query |-> Keys({"provider"}, {})]
getSignedUrlSchema ==
    [query |-> Defaulting(Keys({"storageKey", "provider"}, {"expiresInSeconds"}),
                          {"expiresInSeconds"})]
getFileByIdSchema == [params |-> Id]
getPaginatedFilesSchema ==
    [query |-> Defaulting(Keys({}, {"page", "limit"}), {"page", "limit"})]

=============================================================================
