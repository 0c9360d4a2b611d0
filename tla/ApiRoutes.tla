----------------------------- MODULE ApiRoutes -----------------------------
(***************************************************************************)
(* The routes of the API (src/routes/v1), in the order in which the        *)
(* routers are given them: of each, its method, the segments of its path,  *)
(* its middlewares and the method of the controller that handles it.  A    *)
(* segment that begins with a colon is a path parameter.                   *)
(***************************************************************************)
EXTENDS PropertyHandlers

-----------------------------------------------------------------------------
(* The middlewares.  They are steps of the same kind as a handler's;       *)
(* HttpRequests says what each of them does.                               *)
Validate(schema) == [op |-> "validate", schema |-> schema]
Authenticate     == [op |-> "authenticate"]
Authorize        == [op |-> "authorize"]
OrgScope         == [op |-> "orgScope"]
OrgRoleFromBody(key)  == [op |-> "orgRoleBody", key |-> key]
OrgRoleForProperty(p) == [op |-> "orgRoleProperty", name |-> p]

(* multer, which reads the files of a multipart request.                   *)
Upload == [op |-> "upload"]

Route(method, path, middlewares, handler) ==
    [method |-> method, path |-> path, middlewares |-> middlewares,
     handler |-> handler]
get(path, mws, handler)    == Route("GET", path, mws, handler)
post(path, mws, handler)   == Route("POST", path, mws, handler)
put(path, mws, handler)    == Route("PUT", path, mws, handler)
patch(path, mws, handler)  == Route("PATCH", path, mws, handler)
delete(path, mws, handler) == Route("DELETE", path, mws, handler)

-----------------------------------------------------------------------------
userRoutes ==
  <<post(<<>>, <<Validate(createUserSchema)>>, createUser),
    post(<<"register">>, <<Validate(registerUserSchema)>>, registerUser),
    put(<<":userId">>,
      <<Authenticate, Validate(updateUserSchema)>>, updateUser),
    get(<<>>, <<>>, getPaginated),
    get(<<":userId">>, <<Authenticate>>, getUserById),
    get(<<"email">>, <<Authenticate>>, getUserByEmail),
    delete(<<":userId">>, <<Authenticate>>, deleteUser),
    post(<<":userId", "roles">>,
      <<Validate(assignRoleSchema), Authenticate>>, addUserRole),
    get(<<":userId", "roles">>, <<Authenticate>>, getUserRoles),
    delete(<<":userId", "roles", ":roleId">>,
      <<Authenticate>>, removeUserRole),
    delete(<<":userId", "roles">>, <<Authenticate>>, removeAllUserRoles),
    get(<<":userId", "organizations">>,
      <<Authenticate>>, getOrganizationsByUser)>>

authRoutes ==
  <<post(<<"login">>, <<>>, login),
    post(<<"me">>, <<Authenticate>>, getAuthenticatedUser),
    get(<<"me">>, <<Authenticate>>, getAuthenticatedUser),
    post(<<"validate">>, <<>>, validateToken),
    post(<<"refresh">>, <<>>, refreshToken),
    post(<<"logout">>, <<>>, logout)>>

roleRoutes ==
  <<post(<<>>, <<Authenticate, Validate(createRoleSchema)>>, createRole),
    put(<<":roleId">>,
      <<Authenticate, Validate(updateRoleSchema)>>, updateRole),
    get(<<>>, <<>>, getAll),
    get(<<":roleId">>,
      <<Authenticate, Validate(getRoleSchema)>>, getRoleById),
    delete(<<":roleId">>,
      <<Authenticate, Validate(deleteRoleSchema)>>, deleteRole)>>

rolePermissionRoutes ==
  <<post(<<":roleId", "permissions">>,
      <<Validate(createRolePermissionSchema), Authenticate>>,
        createRolePermission),
    get(<<":roleId", "permissions", ":permissionId">>,
      <<>>, getRolePermissionByRoleIdAndPermissionId),
    get(<<":roleId", "permissions">>, <<>>, getAllRolePermissions),
    delete(<<":roleId", ":permissionId">>, <<>>, deleteRolePermission)>>

permissionRoutes ==
  <<post(<<>>,
      <<Validate(createPermissionSchema), Authenticate>>, createPermission),
    put(<<":permissionIdentifier">>, <<>>, updatePermission),
    get(<<>>, <<>>, getAll),
    get(<<":permissionIdentifier">>, <<>>, getPermissionById),
    delete(<<":permissionIdentifier">>, <<>>, deletePermission)>>

organizationCrudRoutes ==
  <<post(<<>>,
      <<Authenticate, Validate(createOrganizationSchema)>>,
        createOrganization),
    put(<<":id">>,
      <<Authenticate, Validate(updateOrganizationSchema)>>,
        updateOrganization),
    get(<<>>, <<>>, getAll),
    get(<<":id">>,
      <<Authenticate, Validate(getOrganizationByIdSchema)>>,
        getOrganizationById),
    delete(<<":id">>,
      <<Authenticate, Validate(deleteOrganizationSchema)>>,
        deleteOrganization),
    patch(<<":id", "soft-delete">>,
      <<Authenticate, Validate(softDeleteOrganizationSchema)>>,
        softDeleteOrganization),
    patch(<<":id", "restore">>,
      <<Authenticate, Validate(restoreOrganizationSchema)>>,
        restoreOrganization),
    get(<<":id", "with-relations">>,
      <<Authenticate, Validate(getOrganizationWithRelationsSchema)>>,
        getOrganizationWithRelations)>>

organizationUserRoutes ==
  <<post(<<":organizationId", "users">>,
      <<Validate(addUserToOrgWithRolesSchema)>>,
        addUserToOrganizationWithRoles),
    get(<<":organizationId", "users">>,
      <<Authenticate>>, listUsersByOrganization),
    get(<<":organizationId", "users", ":userId">>,
      <<Authenticate, Validate(getMembershipSchema)>>, getMembership),
    patch(<<":organizationId", "users", ":userId", "status">>,
      <<Authenticate, Validate(updateStatusSchema)>>, updateStatus),
    put(<<":organizationId", "users", ":userId", "roles">>,
      <<Authenticate, Validate(replaceRolesSchema)>>, replaceRoles),
    patch(<<":organizationId", "users", ":userId", "roles">>,
      <<Authenticate, Validate(removeRolesSchema)>>, removeRoles),
    delete(<<":organizationId", "users", ":userId">>,
      <<Authenticate, Validate(getMembershipSchema)>>,
        softDeleteOrganizationUser),
    post(<<":organizationId", "users", ":userId", "restore">>,
      <<Authenticate, Validate(getMembershipSchema)>>,
        restoreOrganizationUser),
    get(<<"org-users", ":id">>,
      <<Authenticate, Validate(orgUserIdSchema)>>, getOrganizationUserById)>>

organizationRoutes == organizationCrudRoutes \o organizationUserRoutes

organizationTypeRoutes ==
  <<post(<<>>, <<>>, createOrganizationType),
    put(<<":id">>, <<>>, updateOrganizationType),
    get(<<>>, <<>>, getAll),
    get(<<":id">>,
      <<Validate(getOrganizationTypeByIdSchema)>>, getOrganizationTypeById),
    get(<<"name">>,
      <<Validate(getOrganizationTypeByNameSchema)>>,
        getOrganizationTypeByName),
    get(<<"status", "active">>, <<>>, getActiveOrganizationTypes),
    delete(<<":id">>,
      <<Authenticate, Validate(deleteOrganizationTypeSchema)>>,
        deleteOrganizationType)>>

smsRoutes ==
  <<post(<<"send">>, <<>>, sendSms)>>

paymentProviderRoutes ==
  <<post(<<>>, <<Authenticate>>, createPaymentProvider),
    get(<<>>, <<Authenticate>>, getAllPaymentProviders),
    get(<<":code">>, <<Authenticate>>, getPaymentProviderByCode),
    put(<<":code">>, <<Authenticate>>, updatePaymentProviderByCode),
    delete(<<":code">>, <<Authenticate>>, deletePaymentProviderByCode)>>

paymentProviderConfigRoutes ==
  <<post(<<":providerCode", "configs">>, <<Authenticate>>, createConfig),
    get(<<":providerCode", "configs">>,
      <<Authenticate>>, getConfigsByProviderCode),
    put(<<":providerCode", "configs", ":key">>,
      <<Authenticate>>, updateConfigByProviderCode),
    delete(<<":providerCode", "configs", ":key">>,
      <<Authenticate>>, deleteConfigByProviderCode)>>

clientAppRoutes ==
  <<post(<<>>,
      <<Validate(createClientAppSchema), Authenticate>>, createClientApp),
    put(<<":appId">>,
      <<Validate(updateClientAppSchema), Authenticate>>, updateClientApp),
    get(<<>>, <<Authenticate>>, getPaginated),
    get(<<":appId">>, <<Authenticate>>, getClientAppByAppId),
    delete(<<":appId">>, <<Authenticate>>, deleteClientApp),
    post(<<":appId", "config">>,
      <<Validate(createApplicationConfigSchema), Authenticate>>,
        createClientAppConfig),
    put(<<":appId", "config">>,
      <<Validate(updateApplicationConfigSchema), Authenticate>>,
        updateClientAppConfig),
    get(<<":appId", "config">>, <<Authenticate>>, getClientAppConfigByAppId),
    delete(<<":appId", "config">>, <<Authenticate>>, deleteClientAppConfig)>>

kycRoutes ==
  <<post(<<"requirements">>,
      <<Authenticate, Authorize, Validate(createKycRequirementSchema)>>,
        createKycRequirement),
    put(<<"requirements", ":id">>,
      <<Authenticate, Authorize, Validate(updateKycRequirementSchema)>>,
        updateKycRequirement),
    get(<<"requirements">>, <<>>, getPaginated),
    get(<<"requirements", ":id">>, <<>>, getKycRequirementById),
    delete(<<"requirements", ":id">>,
      <<Authenticate, Authorize>>, deleteKycRequirement),
    post(<<"profiles">>,
      <<Authenticate, Authorize, Validate(createKycProfileSchema)>>,
        createKycProfile),
    put(<<"profiles", ":id">>,
      <<Authenticate, Authorize, Validate(updateKycProfileSchema)>>,
        updateKycProfile),
    get(<<"profiles">>, <<>>, getPaginated),
    get(<<"profiles", ":id">>, <<>>, getKycProfileById),
    get(<<"profiles", "user", ":userId">>, <<>>, getKycProfilesByUserId),
    get(<<"profiles", "organization", ":organizationId">>,
      <<>>, getKycProfilesByOrganizationId),
    delete(<<"profiles", ":id">>,
      <<Authenticate, Authorize>>, deleteKycProfile)>>

fileRoutes ==
  <<post(<<"upload">>,
      <<Upload, Validate(uploadFilesSchema), Authenticate>>, uploadFiles),
    delete(<<>>, <<Validate(deleteFileSchema), Authenticate>>, deleteFile),
    delete(<<"by-key", ":storageKey">>,
      <<Validate(deleteFileByKeySchema), Authenticate>>,
        deleteFileByKeyParam),
    get(<<"signed-url">>,
      <<Validate(getSignedUrlSchema), Authenticate>>, getSignedUrl),
    get(<<":id">>,
      <<Validate(getFileByIdSchema), Authenticate>>, getFileById),
    get(<<>>,
      <<Validate(getPaginatedFilesSchema), Authenticate>>, getPaginatedFiles)>>

propertyOwnRoutes ==
  <<post(<<>>,
      <<Authenticate, OrgRoleFromBody("organizationId")>>, createProperty),
    put(<<":id">>,
      <<Authenticate, OrgRoleForProperty(":id")>>, updateProperty),
    get(<<>>, <<OrgScope>>, listScoped),
    get(<<"tenants", "my-orgs">>,
      <<Authenticate, OrgScope>>, listTenantsForUserOrganizations),
    get(<<"requests", "my-orgs">>,
      <<Authenticate, OrgScope>>, listRequestsForUserOrganizations),
    get(<<"my-orgs">>, <<Authenticate>>, getPropertiesForUserOrganizations),
    get(<<":id">>, <<>>, getPropertyById),
    get(<<"code", ":code">>, <<>>, getPropertyByCode),
    get(<<"organization", ":organizationId">>,
      <<>>, getPropertiesByOrganization),
    get(<<"owner", ":ownerId">>, <<>>, getPropertiesByOwner),
    get(<<"listed">>, <<>>, getListedProperties),
    get(<<"config">>, <<>>, findByConfigKeyValue)>>

addressRoutes ==
  <<post(<<":propertyId", "addresses">>, <<>>, createAddress),
    put(<<":propertyId", "addresses", ":id">>, <<>>, updateAddress),
    get(<<":propertyId", "addresses">>, <<>>, getAddressesByProperty),
    get(<<":propertyId", "addresses", ":id">>, <<>>, getAddressById),
    delete(<<":propertyId", "addresses", ":id">>,
      <<Authenticate, OrgRoleForProperty(":propertyId")>>, deleteAddress)>>

unitRoutes ==
  <<post(<<":propertyId", "units">>,
      <<Authenticate, OrgRoleForProperty(":propertyId"),
        Validate(createUnitSchema)>>, createUnit),
    put(<<":propertyId", "units", ":id">>,
      <<Authenticate, OrgRoleForProperty(":propertyId"),
        Validate(updateUnitSchema)>>, updateUnit),
    get(<<":propertyId", "units">>,
      <<Validate(listUnitsSchema)>>, getUnitsByProperty),
    get(<<":propertyId", "units", "available">>, <<>>, getAvailableUnits),
    get(<<":propertyId", "units", "number", ":unitNumber">>,
      <<>>, getUnitByNumber),
    get(<<":propertyId", "units", "occupied">>, <<>>, getOccupiedUnits),
    get(<<":propertyId", "units", "search">>,
      <<Validate(searchUnitsSchema)>>, searchUnits)>>

tenantWriteRoutes ==
  <<post(<<":propertyId", "units", ":unitId", "tenants">>,
      <<Authenticate, OrgRoleForProperty(":propertyId"),
        Validate(createTenantSchema)>>, createUnitTenant),
    post(<<":propertyId", "units", ":unitId", "tenants", "with-user">>,
      <<Authenticate, OrgRoleForProperty(":propertyId"),
        Validate(createTenantWithUserSchema)>>, createTenantWithUser),
    put(<<":propertyId", "units", ":unitId", "tenants", ":id">>,
      <<Authenticate, OrgRoleForProperty(":propertyId"),
        Validate(updateTenantSchema)>>, updateUnitTenant)>>

tenantReadRoutes ==
  <<get(<<":propertyId", "units", ":unitId", "tenants">>,
      <<>>, getTenantsByUnit),
    get(<<":propertyId", "units", ":unitId", "tenants", "active">>,
      <<>>, getActiveTenantByUnit),
    get(<<":propertyId", "units", ":unitId", "tenants", "status", ":status">>,
      <<Validate(getTenantsByStatusSchema)>>, getTenantsByStatus),
    delete(<<":propertyId", "units", ":unitId", "tenants", ":id">>,
      <<Authenticate, OrgRoleForProperty(":propertyId")>>, deleteUnitTenant)>>

ownerRoutes ==
  <<post(<<":propertyId", "owners">>,
      <<Authenticate, OrgRoleForProperty(":propertyId")>>, createOwner),
    put(<<":propertyId", "owners", ":id">>,
      <<Authenticate, OrgRoleForProperty(":propertyId")>>, updateOwner),
    get(<<":propertyId", "owners">>, <<>>, getOwnersByProperty),
    get(<<"owners", "user", ":userId">>, <<>>, getOwnerByUser),
    get(<<"owners", "landlords", ":role">>, <<>>, getLandlordsByRole)>>

staffRoutes ==
  <<post(<<":propertyId", "staff">>,
      <<Authenticate, OrgRoleForProperty(":propertyId")>>, createStaff),
    put(<<":propertyId", "staff", ":id">>,
      <<Authenticate, OrgRoleForProperty(":propertyId")>>, updateStaff),
    get(<<":propertyId", "staff">>, <<>>, getStaffByProperty),
    get(<<"staff", "user", ":userId">>, <<>>, getStaffByUser)>>

requestRoutes ==
  <<post(<<":propertyId", "requests">>,
      <<Authenticate, OrgRoleForProperty(":propertyId"),
        Validate(createRequestSchema)>>, createRequest),
    put(<<":propertyId", "requests", ":id">>,
      <<Authenticate, OrgRoleForProperty(":propertyId"),
        Validate(updateRequestSchema)>>, updateRequest),
    get(<<":propertyId", "requests">>,
      <<Authenticate>>, getRequestsByProperty),
    get(<<":propertyId", "requests", "status", ":status">>,
      <<Authenticate, Validate(getRequestsByStatusSchema)>>,
        getRequestsByStatus)>>

requestListRoutes ==
  <<delete(<<":propertyId", "requests", ":id">>,
      <<Authenticate, OrgRoleForProperty(":propertyId")>>, deleteRequest),
    get(<<":propertyId", "requests", "open">>,
      <<Authenticate>>, getOpenRequests),
    get(<<":propertyId", "requests", "unassigned">>,
      <<Authenticate>>, getUnassignedRequests),
    get(<<":propertyId", "requests", "priority">>,
      <<Authenticate>>, getPriorityRequests),
    get(<<":propertyId", "requests", "recent">>,
      <<Authenticate, Validate(getRecentRequestsSchema)>>, getRecentRequests)>>

leaseReportRoutes ==
  <<post(<<":propertyId", "units", ":unitId", "leases">>,
      <<Authenticate, OrgRoleForProperty(":propertyId"),
        Validate(createLeaseAgreementSchema)>>, createLeaseAgreement),
    get(<<":propertyId", "leases", "rent-roll">>,
      <<Authenticate, OrgRoleForProperty(":propertyId")>>,
        getPropertyRentRoll),
    get(<<":propertyId", "leases", "rent-roll.csv">>,
      <<Authenticate, OrgRoleForProperty(":propertyId")>>, exportRentRollCsv),
    get(<<":propertyId", "leases", "rent-roll-tax.csv">>,
      <<Authenticate, OrgRoleForProperty(":propertyId")>>,
        exportRentRollTaxCsv)>>

leaseArrearsRoutes ==
  <<get(<<":propertyId", "leases", "arrears">>,
      <<Authenticate, OrgRoleForProperty(":propertyId")>>, getArrearsAging),
    get(<<":propertyId", "leases", "arrears.csv">>,
      <<Authenticate, OrgRoleForProperty(":propertyId")>>, exportArrearsCsv),
    get(<<":propertyId", "leases", "arrears-tax.csv">>,
      <<Authenticate, OrgRoleForProperty(":propertyId")>>,
        exportArrearsTaxCsv),
    get(<<"leases", ":id", "ledger">>, <<Authenticate>>, getLeaseLedger)>>

leaseWriteRoutes ==
  <<put(<<":propertyId", "units", ":unitId", "leases", ":id">>,
      <<Authenticate, OrgRoleForProperty(":propertyId"),
        Validate(updateLeaseAgreementSchema)>>, updateLeaseAgreement),
    patch(<<":propertyId", "units", ":unitId", "leases", ":id", "extend">>,
      <<Authenticate, OrgRoleForProperty(":propertyId"),
        Validate(extendLeaseAgreementSchema)>>, extendLease),
    patch(<<":propertyId", "units", ":unitId", "leases", ":id", "terminate">>,
      <<Authenticate, OrgRoleForProperty(":propertyId"),
        Validate(terminateLeaseAgreementSchema)>>, terminateLease)>>

leaseReadRoutes ==
  <<get(<<":propertyId", "units", ":unitId", "leases", ":id">>,
      <<>>, getLeaseById),
    delete(<<":propertyId", "units", ":unitId", "leases", ":id">>,
      <<Authenticate, OrgRoleForProperty(":propertyId")>>,
        deleteLeaseAgreement),
    get(<<":propertyId", "units", ":unitId", "leases">>,
      <<>>, getLeasesByUnit),
    get(<<"tenants", ":tenantId", "leases">>, <<>>, getLeasesByTenant)>>

payments == <<":propertyId", "units", ":unitId", "leases", ":leaseId",
              "payments">>

leasePaymentRoutes ==
  <<post(payments,
      <<Authenticate, OrgRoleForProperty(":propertyId"),
        Validate(createPaymentSchema)>>, createPayment),
    put(payments \o <<":id">>,
      <<Authenticate, OrgRoleForProperty(":propertyId"),
        Validate(updatePaymentSchema)>>, updatePayment),
    get(payments, <<>>, getPaymentsByLease),
    get(payments \o <<"range">>,
      <<Validate(getPaymentsInDateRangeSchema)>>, getPaymentsInDateRange)>>

propertyRoutes ==
  propertyOwnRoutes
  \o addressRoutes
  \o unitRoutes
  \o tenantWriteRoutes
  \o tenantReadRoutes
  \o ownerRoutes
  \o staffRoutes
  \o requestRoutes
  \o requestListRoutes
  \o leaseReportRoutes
  \o leaseArrearsRoutes
  \o leaseWriteRoutes
  \o leaseReadRoutes
  \o leasePaymentRoutes

locationRoutes ==
  <<post(<<>>,
      <<Validate(createLocationSchema), Authenticate>>, createLocation),
    get(<<>>, <<>>, getAll),
    get(<<":locationId">>, <<>>, getById),
    put(<<":locationId">>,
      <<Validate(updateLocationSchema), Authenticate>>, updateLocation),
    delete(<<":locationId">>, <<Authenticate>>, deleteLocation),
    post(<<":locationId", "move">>,
      <<Validate(moveLocationSchema), Authenticate>>, moveLocation),
    get(<<":locationId", "children">>, <<>>, getDescendants),
    get(<<":locationId", "ancestors">>, <<>>, getAncestors),
    get(<<":locationId", "descendants">>, <<>>, getDescendants)>>

linkRoutes ==
  <<post(<<>>, <<Validate(createLinkSchema), Authenticate>>, createLink),
    get(<<":id">>, <<Validate(getLinkByIdSchema)>>, getLinkById),
    put(<<":id">>, <<Validate(updateLinkSchema), Authenticate>>, updateLink),
    delete(<<":id">>,
      <<Validate(deleteLinkSchema), Authenticate>>, deleteLink),
    delete(<<"bulk">>,
      <<Validate(bulkDeleteLinksSchema), Authenticate>>, bulkDeleteLinks),
    put(<<"upsert">>,
      <<Validate(upsertLinkSchema), Authenticate>>, upsertLink),
    put(<<"bulk-upsert">>,
      <<Validate(bulkUpsertLinksSchema), Authenticate>>, bulkUpsertLinks)>>

linkQueryRoutes ==
  <<post(<<":id", "clear-center-point">>,
      <<Validate(clearCenterPointSchema), Authenticate>>, clearCenterPoint),
    get(<<"near">>,
      <<Validate(findComponentsNearPointSchema)>>, findComponentsNearPoint),
    get(<<"locations", ":locationId">>,
      <<Validate(listByLocationSchema)>>, listByLocation),
    get(<<"address-components", ":addressComponentId">>,
      <<Validate(listByAddressComponentSchema)>>, listByAddressComponent),
    get(<<"locations", ":locationId", "primary">>,
      <<Validate(getPrimaryForLocationSchema)>>, getPrimaryForLocation),
    post(<<"locations", ":locationId", "reorder">>,
      <<Validate(reorderSequencesSchema), Authenticate>>, reorderSequences)>>

locationAddressComponentRoutes == linkRoutes \o linkQueryRoutes

componentRoutes ==
  <<post(<<>>,
      <<Validate(createAddressComponentSchema), Authenticate>>,
        createAddressComponent),
    get(<<"by", "type-value">>,
      <<Validate(getByTypeAndValueSchema)>>, getByTypeAndValue),
    get(<<"types">>, <<Validate(listByTypesSchema)>>, listByTypes),
    get(<<"location", ":locationId">>,
      <<Validate(getForLocationSchema)>>, getForLocation),
    get(<<>>, <<Validate(searchPaginatedSchema)>>, searchPaginated),
    get(<<":id">>,
      <<Validate(getAddressComponentByIdSchema)>>, getAddressComponentById),
    put(<<":id">>,
      <<Validate(updateAddressComponentSchema), Authenticate>>,
        updateAddressComponent),
    delete(<<":id">>,
      <<Validate(deleteAddressComponentSchema), Authenticate>>,
        deleteAddressComponent)>>

componentTreeRoutes ==
  <<post(<<"bulk", "delete">>,
      <<Validate(bulkDeleteAddressComponentsSchema), Authenticate>>,
        bulkDelete),
    post(<<":id", "move">>,
      <<Validate(moveAddressComponentSchema), Authenticate>>, move),
    get(<<":id", "children">>, <<Validate(getChildrenSchema)>>, getChildren),
    get(<<":id", "ancestors">>,
      <<Validate(getAncestorsSchema)>>, getComponentAncestors),
    get(<<":id", "descendants">>,
      <<Validate(getDescendantsSchema)>>, getComponentDescendants),
    put(<<"upsert">>,
      <<Validate(upsertByTypeValueParentSchema), Authenticate>>,
        upsertByTypeValueParent),
    post(<<"bulk", "upsert">>,
      <<Validate(bulkUpsertAddressComponentsSchema), Authenticate>>,
        bulkUpsert)>>

addressComponentRoutes == componentRoutes \o componentTreeRoutes

-----------------------------------------------------------------------------
(* appRoutes of routes/v1/index.ts.  Mounting a router under a path is     *)
(* putting the path before the paths of its routes.                        *)
Mount(prefix, routes) ==
    [n \in DOMAIN routes |-> [routes[n] EXCEPT !.path = prefix \o @]]

appRoutes ==
  Mount(<<"users">>, userRoutes)
  \o Mount(<<"auth">>, authRoutes)
  \o Mount(<<"roles">>, roleRoutes)
  \o Mount(<<"roles">>, rolePermissionRoutes)
  \o Mount(<<"permissions">>, permissionRoutes)
  \o Mount(<<"organizations">>, organizationRoutes)
  \o Mount(<<"organization-types">>, organizationTypeRoutes)
  \o Mount(<<"sms">>, smsRoutes)
  \o Mount(<<"payment-providers">>, paymentProviderRoutes)
  \o Mount(<<"payment-configs">>, paymentProviderConfigRoutes)
  \o Mount(<<"apps">>, clientAppRoutes)
  \o Mount(<<"kyc">>, kycRoutes)
  \o Mount(<<"files">>, fileRoutes)
  \o Mount(<<"properties">>, propertyRoutes)
  \o Mount(<<"locations">>, locationRoutes)
  \o Mount(<<"locations", "components">>, locationAddressComponentRoutes)
  \o Mount(<<"locations", "address", "components">>, addressComponentRoutes)

ParamSegments ==
  {":addressComponentId", ":appId", ":code", ":id", ":key", ":leaseId",
   ":locationId", ":organizationId", ":ownerId", ":permissionId",
   ":permissionIdentifier", ":propertyId", ":providerCode", ":role",
   ":roleId", ":status", ":storageKey", ":tenantId", ":unitId",
   ":unitNumber", ":userId"}

=============================================================================
