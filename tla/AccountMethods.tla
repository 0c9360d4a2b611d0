--------------------------- MODULE AccountMethods ---------------------------
(***************************************************************************)
(* The methods of the services of users, access control, KYC, payment      *)
(* providers, client applications and organizations.  Keys carry the names *)
(* of what they are made from; a key a writer builds otherwise than the    *)
(* reader is another key.                                                  *)
(***************************************************************************)
EXTENDS ServiceSteps

\* userService: a user is cached by id as well, which nothing reads.
createUser == Creates(Insert \o Save("id"))
updateUser == Updates(FindOrFail \o Write \o FindOrFail \o Forget("id") \o Save("id"))
deleteUser == Deletes(Forget("id") \o Remove)
getByPhone == Reads(ReadThrough("phone"))
getByEmail == Reads(ReadThrough("email"))
registerUser == Creates(getByEmail.steps \o IfAbsent(createUser.steps))
userService ==
    [createUser |-> createUser, registerUser |-> registerUser, updateUser |-> updateUser,
     deleteUser |-> deleteUser, getByPhone |-> getByPhone, getByEmail |-> getByEmail]

\* userRoleService.  user_roles has a composite key: typeorm refuses the update by one
\* id; whether it matches any row when roleId is compared with an array is left open.
getRolesByUserId == Reads(ReadThrough("roles"))
deleteUserRole == Deletes(Remove \o Forget("roles"))
removeAllRolesFromUser == Deletes(Remove \o Forget("roles"))
bulkRemoveRolesFromUser == Changes(MayRemove \o Forget("roles"))
updateUserRole == Changes(Fail \o Forget("roles"))
cacheUserRoles == Find \o SaveOrForget("roles")
createUserRole == Creates(Insert \o cacheUserRoles)
userRoleService ==
    [createUserRole |-> createUserRole, getRolesByUserId |-> getRolesByUserId,
     deleteUserRole |-> deleteUserRole, removeAllRolesFromUser |-> removeAllRolesFromUser,
     bulkRemoveRolesFromUser |-> bulkRemoveRolesFromUser, updateUserRole |-> updateUserRole]

\* kycProfileService.
createKycProfile == Creates(Insert \o Save("id") \o Forget("all"))
getKycProfile == ReadOrFail("id")
updateKycProfile ==
    Updates(getKycProfile \o Forget("id") \o Write \o Save("id") \o Forget("all"))
deleteKycProfile == Deletes(getKycProfile \o Forget("id") \o Remove \o Forget("all"))
getKycProfilesByType == Reads(ReadThrough("type"))
getKycProfilesByStatus == Reads(ReadThrough("status"))
getProfilesByUserId == Reads(ReadThrough("user"))
getProfilesByOrganizationId == Reads(ReadThrough("organization"))
kycProfileService ==
    [createKycProfile |-> createKycProfile, updateKycProfile |-> updateKycProfile,
     deleteKycProfile |-> deleteKycProfile, getKycProfile |-> Reads(getKycProfile),
     getKycProfilesByType |-> getKycProfilesByType,
     getKycProfilesByStatus |-> getKycProfilesByStatus,
     getProfilesByUserId |-> getProfilesByUserId,
     getProfilesByOrganizationId |-> getProfilesByOrganizationId]

\* kycRequirementService.
createKycRequirement == Creates(Insert \o Save("id"))
getKycRequirement == ReadOrFail("id")
updateKycRequirement ==
    Updates(getKycRequirement \o Write \o getKycRequirement \o Save("id"))
deleteKycRequirement == Deletes(getKycRequirement \o Remove \o Forget("id"))
kycRequirementService ==
    [createKycRequirement |-> createKycRequirement,
     updateKycRequirement |-> updateKycRequirement,
     deleteKycRequirement |-> deleteKycRequirement,
     getKycRequirement |-> Reads(getKycRequirement)]

\* accessPolicyService: the entry by id is read by nobody.
createPolicy == Creates(Insert \o Save("id"))
updatePolicy ==
    Updates(FindOrFail \o Write \o FindOrFail \o Forget("id") \o Save("id") \o FindOrFail)
deletePolicy == Deletes(Forget("id") \o Remove)
getPolicyByResourceAndAction == Reads(ReadThrough("action"))
accessPolicyService ==
    [createPolicy |-> createPolicy, updatePolicy |-> updatePolicy,
     deletePolicy |-> deletePolicy,
     getPolicyByResourceAndAction |-> getPolicyByResourceAndAction]

\* permissionService.  A code is cached as bare text, which getFromCache cannot parse:
\* it is never found.
createPermission == Creates(Insert \o Save("id") \o Forget("all"))
getPermission == ReadOrFail("id")
updatePermission ==
    Updates(getPermission \o Forget("id") \o IfThere(SaveRow) \o Save("id")
        \o Forget("all"))
deletePermission == Deletes(getPermission \o Forget("id") \o Remove \o Forget("all"))
getByCode == Reads(ReadOrFail("code"))
getPermissionCodeById == Reads(ReadFirst("text", Find \o IfFound(Save("unparsable"))))
permissionService ==
    [createPermission |-> createPermission, updatePermission |-> updatePermission,
     deletePermission |-> deletePermission, getPermission |-> Reads(getPermission),
     getByCode |-> getByCode, getPermissionCodeById |-> getPermissionCodeById]

\* rolePermissionService: lists are looked up under one key and stored under another,
\* and so is a pair of role and permission.
getRolePermission == ReadOrFail("id")
getPermissionsByRole == ReadFirst("role", Find \o Save("twiceRole"))
getByRoleIdAndPermissionId == Reads(ReadFirst("pair", FindOrFail \o Save("id")))
cachePermissionsForRole == getPermissionsByRole \o Save("twiceRole")
createRolePermission == Creates(Insert \o Save("id") \o cachePermissionsForRole)
deleteRolePermission ==
    Deletes(getRolePermission \o Forget("id") \o Forget("role") \o Remove
        \o cachePermissionsForRole)
rolePermissionService ==
    [createRolePermission |-> createRolePermission,
     deleteRolePermission |-> deleteRolePermission,
     getRolePermission |-> Reads(getRolePermission),
     getPermissionsByRole |-> Reads(getPermissionsByRole),
     getByRoleIdAndPermissionId |-> getByRoleIdAndPermissionId]

\* roleService.
createRole == Creates(Insert \o Save("id") \o Forget("all"))
getRole == ReadOrFail("id")
updateRole ==
    Updates(getRole \o Forget("id") \o IfThere(SaveRow) \o Save("id") \o Forget("all"))
deleteRole == Deletes(getRole \o Forget("id") \o Remove \o Forget("all"))
roleService ==
    [createRole |-> createRole, updateRole |-> updateRole, deleteRole |-> deleteRole,
     getRole |-> Reads(getRole)]

\* paymentProviderConfigService: single entries are read by nobody.
createPaymentProviderConfig == Creates(Insert \o Save("single") \o Forget("provider"))
getConfigsByProviderCode == Reads(ReadAll("provider"))
updateConfigByProviderCode ==
    Changes(Exists \o Write \o Exists \o Forget("single") \o Forget("provider"))
deleteConfigByProviderCode ==
    Deletes(Exists \o Remove \o Forget("single") \o Forget("provider"))
paymentProviderConfigService ==
    [createPaymentProviderConfig |-> createPaymentProviderConfig,
     getConfigsByProviderCode |-> getConfigsByProviderCode,
     updateConfigByProviderCode |-> updateConfigByProviderCode,
     deleteConfigByProviderCode |-> deleteConfigByProviderCode]

\* paymentProviderService.
createPaymentProvider == Creates(Insert \o Save("code") \o Forget("all"))
getPaymentProviderByCode == Reads(ReadOrFail("code"))
updatePaymentProviderByCode ==
    Updates(Exists \o Write \o FindOrFail \o Save("code") \o Forget("all"))
deletePaymentProviderByCode == Deletes(Exists \o Remove \o Forget("code") \o Forget("all"))
getAllPaymentProviders == Reads(ReadAll("all"))
paymentProviderService ==
    [createPaymentProvider |-> createPaymentProvider,
     getPaymentProviderByCode |-> getPaymentProviderByCode,
     updatePaymentProviderByCode |-> updatePaymentProviderByCode,
     deletePaymentProviderByCode |-> deletePaymentProviderByCode,
     getAllPaymentProviders |-> getAllPaymentProviders]

\* clientAppService and clientAppConfigService: the writers store and delete under the
\* app id alone, the readers use the app id behind a namespace.
createClientApp == Creates(Insert \o Save("app"))
getClientAppByAppId == ReadThrough("app")
getClientAppsByStatus == Reads(ReadAll("status"))
deleteClientAppByAppId == Deletes(Remove \o Forget("bareId"))
refreshClientApp == getClientAppByAppId \o IfFound(Save("bareId"))
updateClientAppByAppId == Changes(Write \o refreshClientApp)
getClientAppConfigByAppId == ReadThrough("config")
deleteClientAppConfigByAppId == Deletes(Remove \o Forget("bareId"))
refreshClientAppConfig == getClientAppConfigByAppId \o IfFound(Save("bareId"))
updateClientAppConfigByAppId == Changes(Write \o refreshClientAppConfig)
clientAppService ==
    [createClientApp |-> createClientApp, getClientAppByAppId |-> Reads(getClientAppByAppId),
     getClientAppsByStatus |-> getClientAppsByStatus,
     updateClientAppByAppId |-> updateClientAppByAppId,
     deleteClientAppByAppId |-> deleteClientAppByAppId]
clientAppConfigService ==
    [getClientAppConfigByAppId |-> Reads(getClientAppConfigByAppId),
     updateClientAppConfigByAppId |-> updateClientAppConfigByAppId,
     deleteClientAppConfigByAppId |-> deleteClientAppConfigByAppId]

\* organizationService.  A soft deleted organization is not found: absent, as a deleted one.
createOrganization == Creates(Insert \o Save("id"))
getOrganizationById == ReadOrFail("id")
softDeleteOrganization == Deletes(SoftRemove \o Forget("id"))
deleteOrganizationById == Deletes(Remove \o Forget("id"))
getOrganizationWithRelations == Reads(Find \o IfFound(Save("id")))
refreshOrganization == getOrganizationById \o Save("id")
updateOrganizationById == Changes(Write \o refreshOrganization)
updateOrganizationConfig == Changes(Write \o refreshOrganization)
restoreOrganization == Changes(Restore \o refreshOrganization)
organizationService ==
    [createOrganization |-> createOrganization,
     getOrganizationById |-> Reads(getOrganizationById),
     updateOrganizationById |-> updateOrganizationById,
     updateOrganizationConfig |-> updateOrganizationConfig,
     softDeleteOrganization |-> softDeleteOrganization,
     restoreOrganization |-> restoreOrganization,
     deleteOrganizationById |-> deleteOrganizationById,
     getOrganizationWithRelations |-> getOrganizationWithRelations]

\* organizationTypeService: the entry by id is read by nobody.
createOrganizationType == Creates(Insert \o Save("id"))
getOrganizationTypeByName == Reads(ReadThrough("name"))
getActiveOrganizationTypes == Reads(ReadAll("active"))
updateOrganizationType == Updates(Write \o FindOrFail \o Forget("id") \o Save("id"))
deleteOrganizationType == Deletes(Forget("id") \o Remove)
organizationTypeService ==
    [createOrganizationType |-> createOrganizationType,
     getOrganizationTypeByName |-> getOrganizationTypeByName,
     getActiveOrganizationTypes |-> getActiveOrganizationTypes,
     updateOrganizationType |-> updateOrganizationType,
     deleteOrganizationType |-> deleteOrganizationType]

\* organizationUserRoleService: a miss is taken for an empty list, the table is never read.
getRolesByOrganizationUserId == ReadFirst("member", NoRows)
deleteOrganizationUserRole == Deletes(Remove \o Forget("roleId"))
deleteRolesByOrganizationUserId == Deletes(Remove \o Forget("member"))
cacheRolesByOrganizationUserId == getRolesByOrganizationUserId \o Save("member")
createOrganizationUserRole == Creates(Insert \o cacheRolesByOrganizationUserId)
organizationUserRoleService ==
    [createOrganizationUserRole |-> createOrganizationUserRole,
     getRolesByOrganizationUserId |-> Reads(getRolesByOrganizationUserId),
     deleteOrganizationUserRole |-> deleteOrganizationUserRole,
     deleteRolesByOrganizationUserId |-> deleteRolesByOrganizationUserId]

=============================================================================
