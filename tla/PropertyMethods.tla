--------------------------- MODULE PropertyMethods ---------------------------
(***************************************************************************)
(* The methods of the services of the catalog, locations and properties, as *)
(* in AccountMethods.                                                      *)
(***************************************************************************)
EXTENDS ServiceSteps

\* catalogAddonService.  Its repository loads an addon, changes it and saves it whole.
deleteCatalogAddonById == Deletes(Exists \o Remove \o Forget("id"))
cacheAddonById == FindOrFail \o Save("id")
createCatalogAddon == Creates(Insert \o Maybe(SaveRow) \o cacheAddonById)
getCatalogAddonById == Reads(ReadFirst("id", FindOrFail \o cacheAddonById))
updateCatalogAddonById == Updates(Exists \o Write \o FindOrFail \o cacheAddonById)
addAddonToCatalog == Changes(FindOrFail \o SaveRow \o cacheAddonById)
removeAddonFromCatalog == Changes(FindOrFail \o SaveRow \o cacheAddonById)
catalogAddonService ==
    [createCatalogAddon |-> createCatalogAddon, getCatalogAddonById |-> getCatalogAddonById,
     updateCatalogAddonById |-> updateCatalogAddonById,
     addAddonToCatalog |-> addAddonToCatalog,
     removeAddonFromCatalog |-> removeAddonFromCatalog,
     deleteCatalogAddonById |-> deleteCatalogAddonById]

\* catalogCategoryService.
getCategoriesByType == Reads(ReadThrough("type"))
cacheCategory == Save("name") \o Forget("type")
createCategory == Creates(Insert \o cacheCategory)
getCategoryByName == ReadFirst("name", Find \o IfFound(cacheCategory))
invalidateCategory == Forget("name") \o Forget("type")
updateCategoryByName ==
    Updates(Exists \o Write \o FindOrFail \o invalidateCategory \o cacheCategory)
addCatalogToCategory == Changes(FindOrFail \o SaveRow \o Exists \o invalidateCategory)
removeCatalogFromCategory == Changes(FindOrFail \o SaveRow \o Exists \o invalidateCategory)
deleteCategoryByName ==
    Deletes(getCategoryByName \o IfFound(invalidateCategory \o Exists \o Remove))
catalogCategoryService ==
    [createCategory |-> createCategory, getCategoryByName |-> Reads(getCategoryByName),
     getCategoriesByType |-> getCategoriesByType,
     updateCategoryByName |-> updateCategoryByName,
     addCatalogToCategory |-> addCatalogToCategory,
     removeCatalogFromCategory |-> removeCatalogFromCategory,
     deleteCategoryByName |-> deleteCategoryByName]

\* catalogItemPricingService.
getPricingByCatalogItemId == ReadThrough("item")
deletePricingByCatalogItemId == Deletes(Remove \o Forget("item"))
cachePricingByCatalogItemId == getPricingByCatalogItemId \o Save("item")
createCatalogItemPricing == Creates(Insert \o cachePricingByCatalogItemId)
updatePricingByCatalogItemId == Changes(Write \o cachePricingByCatalogItemId)
catalogItemPricingService ==
    [createCatalogItemPricing |-> createCatalogItemPricing,
     getPricingByCatalogItemId |-> Reads(getPricingByCatalogItemId),
     updatePricingByCatalogItemId |-> updatePricingByCatalogItemId,
     deletePricingByCatalogItemId |-> deletePricingByCatalogItemId]

\* catalogService.
createCatalogItem == Creates(Insert \o Save("code"))
getCatalogByCode == Reads(ReadThrough("code"))
updateCatalogByCode == Updates(Exists \o Write \o FindOrFail \o Save("code"))
deleteCatalogByCode == Deletes(Exists \o Remove \o Forget("code"))
updateMetadataByCode == Changes(Exists \o Write \o Forget("code"))
catalogService ==
    [createCatalogItem |-> createCatalogItem, getCatalogByCode |-> getCatalogByCode,
     updateCatalogByCode |-> updateCatalogByCode, deleteCatalogByCode |-> deleteCatalogByCode,
     updateMetadataByCode |-> updateMetadataByCode]

\* addressComponentService.
createComponent == Creates(Insert \o Save("id"))
bulkDeleteComponents == Deletes(Remove \o Forget("id"))
getComponent == ReadOrFail("id")
updateComponent == Updates(getComponent \o Write \o getComponent \o Save("id"))
deleteComponent == Deletes(getComponent \o Remove \o Forget("id"))
searchPaginated == Reads(ReadAll("search"))
moveComponent == Updates(Exists \o Write \o FindOrFail \o Forget("id") \o Save("id"))
upsertByTypeValueParent ==
    Updates(Find \o IfFound(Exists \o Write \o FindOrFail) \o IfAbsent(Insert)
        \o Save("id"))
bulkUpsert == Changes(Upsert)
addressComponentService ==
    [createComponent |-> createComponent, updateComponent |-> updateComponent,
     deleteComponent |-> deleteComponent, bulkDeleteComponents |-> bulkDeleteComponents,
     getComponent |-> Reads(getComponent), searchPaginated |-> searchPaginated,
     moveComponent |-> moveComponent, upsertByTypeValueParent |-> upsertByTypeValueParent,
     bulkUpsert |-> bulkUpsert]

\* locationAddressComponentService.  findById loads a link without its location and
\* component, which the code reads afterwards.  ensureSinglePrimary is what making
\* another link of the location primary does to this one.
createLink ==
    Creates(Insert \o FindBareOrFail \o Forget("location") \o Forget("component")
        \o Save("id"))
bulkDeleteLinks ==
    Deletes(ReadFirst("id", FindBare \o IfFound(Save("id"))) \o Remove
        \o IfFound(NeedRelations \o Forget("id") \o Forget("location")
        \o Forget("component")))
getLink == ReadFirst("id", FindBareOrFail \o Save("id"))
updateLink ==
    Updates(getLink \o Exists \o Write \o FindBareOrFail \o NeedRelations \o Save("id")
        \o Forget("location") \o Forget("component"))
deleteLink ==
    Deletes(getLink \o NeedRelations \o Exists \o Remove \o Forget("id")
        \o Forget("location") \o Forget("component"))
getByLocation == ReadAll("location")
getByAddressComponent == Reads(ReadAll("component"))
ensureSinglePrimary ==
    Changes(Find \o IfFound(Exists \o Write \o Exists \o Forget("id")
        \o Forget("location")))
reorderSequences == Changes(Write \o Forget("location") \o Forget("id"))
upsertLink ==
    Updates(Upsert \o getByLocation \o NeedFound \o Forget("location")
        \o Forget("component") \o Save("id"))
bulkUpsertLinks == Changes(Upsert \o Forget("location") \o Forget("component"))
clearCenterPoint ==
    Changes(getLink \o Exists \o Write \o Exists \o Forget("id") \o NeedRelations
        \o Forget("location"))
locationAddressComponentService ==
    [createLink |-> createLink, updateLink |-> updateLink, deleteLink |-> deleteLink,
     bulkDeleteLinks |-> bulkDeleteLinks, getLink |-> Reads(getLink),
     getByLocation |-> Reads(getByLocation), getByAddressComponent |-> getByAddressComponent,
     ensureSinglePrimary |-> ensureSinglePrimary, reorderSequences |-> reorderSequences,
     upsertLink |-> upsertLink, bulkUpsertLinks |-> bulkUpsertLinks,
     clearCenterPoint |-> clearCenterPoint]

\* locationService.  The components of a location are rows of their own: of
\* attachAddressComponents only what it does to the location is here.
getLocation == ReadOrFail("id")
deleteLocation == Deletes(getLocation \o Remove \o Forget("id"))
listLocations == Reads(ReadAll("list"))
moveLocation == Updates(FindOrFail \o SaveRow \o FindOrFail \o Forget("id"))
findNearest == Reads(ReadAll("nearest"))
findWithinRadius == Reads(ReadAll("radius"))
findContainingPoint == Reads(ReadAll("contains"))
attachAddressComponents == Changes(getLocation \o Write \o Forget("id"))
createLocation == Creates(Insert \o Save("id") \o Maybe(attachAddressComponents.steps))
updateLocation ==
    Updates(getLocation \o Write \o Maybe(Write) \o Maybe(attachAddressComponents.steps)
        \o getLocation \o Save("id"))
locationService ==
    [createLocation |-> createLocation, updateLocation |-> updateLocation,
     deleteLocation |-> deleteLocation, getLocation |-> Reads(getLocation),
     listLocations |-> listLocations, moveLocation |-> moveLocation,
     findNearest |-> findNearest, findWithinRadius |-> findWithinRadius,
     findContainingPoint |-> findContainingPoint,
     attachAddressComponents |-> attachAddressComponents]

\* propertyAddressService: its writers are those of BaseService.
getAddressesByProperty == Reads(ReadAll("property"))
getAddressByLabel == Reads(ReadThrough("label"))
baseCreate == Creates(Insert \o Save("id"))
baseUpdate == Updates(FindOrFail \o Write \o FindOrFail \o Save("id"))
baseDelete == Deletes(FindOrFail \o Remove \o Forget("id"))
propertyAddressService ==
    [getAddressesByProperty |-> getAddressesByProperty,
     getAddressByLabel |-> getAddressByLabel, baseCreate |-> baseCreate,
     baseUpdate |-> baseUpdate, baseDelete |-> baseDelete]

\* propertyOwnerService: the entry of an owner is read by nobody.
createOwner == Creates(Insert \o Save("id"))
updateOwner == Updates(Write \o FindOrFail \o Forget("id") \o Save("id"))
deleteOwner == Deletes(Remove \o Forget("id"))
propertyOwnerService ==
    [createOwner |-> createOwner, updateOwner |-> updateOwner, deleteOwner |-> deleteOwner]

\* propertyRequestService.  The list is read under a key no writer deletes, and a request
\* is loaded without its property, which deleteRequest reads after the deletion.
createRequest == Creates(Insert \o Forget("bareId"))
updateRequest == Updates(Write \o FindBareOrFail)
deleteRequest == Deletes(FindBareOrFail \o Remove \o NeedRelations \o Forget("bareId"))
getRequestsByProperty == Reads(ReadAll("property"))
propertyRequestService ==
    [createRequest |-> createRequest, updateRequest |-> updateRequest,
     deleteRequest |-> deleteRequest, getRequestsByProperty |-> getRequestsByProperty]

\* propertyService: the writers store and delete a code under another key than the reader.
createProperty == Creates(Insert \o Save("id") \o Save("bareCode"))
updateProperty ==
    Updates(Write \o FindOrFail \o Forget("id") \o Save("id") \o Save("bareCode"))
deleteProperty == Deletes(FindOrFail \o Remove \o Forget("id") \o Forget("bareCode"))
getPropertyByCode == Reads(ReadThrough("code"))
getPropertiesByOrganization == Reads(ReadAll("organization"))
getPropertiesByOwner == Reads(ReadAll("owner"))
getListedProperties == Reads(ReadAll("listed"))
propertyService ==
    [createProperty |-> createProperty, updateProperty |-> updateProperty,
     deleteProperty |-> deleteProperty, getPropertyByCode |-> getPropertyByCode,
     getPropertiesByOrganization |-> getPropertiesByOrganization,
     getPropertiesByOwner |-> getPropertiesByOwner, getListedProperties |-> getListedProperties]

\* propertyStaffService, propertyUnitTenantService: lists are read under keys no writer deletes.
createStaff == Creates(Insert \o Forget("bareProperty") \o Forget("bareUser"))
updateStaff == Updates(Write \o FindOrFail \o Forget("bareProperty") \o Forget("bareUser"))
deleteStaff == Deletes(FindOrFail \o Remove \o Forget("bareProperty") \o Forget("bareUser"))
getStaffByProperty == Reads(ReadAll("property"))
getStaffByUser == Reads(ReadAll("user"))
createUnitTenant ==
    Creates(Insert \o Forget("bareProperty") \o Forget("bareUnit") \o Forget("bareUser"))
updateUnitTenant ==
    Updates(Write \o FindOrFail \o Forget("bareProperty") \o Forget("bareUnit")
        \o Forget("bareUser"))
deleteUnitTenant ==
    Deletes(FindOrFail \o Remove \o Forget("bareProperty") \o Forget("bareUnit")
        \o Forget("bareUser"))
getTenantsByProperty == Reads(ReadAll("property"))
getTenantsByUnit == Reads(ReadAll("unit"))
getTenanciesByUser == Reads(ReadAll("user"))
propertyStaffService ==
    [createStaff |-> createStaff, updateStaff |-> updateStaff, deleteStaff |-> deleteStaff,
     getStaffByProperty |-> getStaffByProperty, getStaffByUser |-> getStaffByUser]
propertyUnitTenantService ==
    [createUnitTenant |-> createUnitTenant, updateUnitTenant |-> updateUnitTenant,
     deleteUnitTenant |-> deleteUnitTenant, getTenantsByProperty |-> getTenantsByProperty,
     getTenantsByUnit |-> getTenantsByUnit, getTenanciesByUser |-> getTenanciesByUser]

\* propertyUnitService: the entry of a unit by its id is read by nobody.
createUnit == Creates(Insert \o Save("id") \o Forget("property") \o Forget("available"))
updateUnit ==
    Updates(Write \o FindOrFail \o Forget("id") \o Save("id") \o Forget("property")
        \o Forget("available"))
deleteUnit ==
    Deletes(Find \o Remove \o Forget("id") \o IfFound(Forget("property")
        \o Forget("available")))
getUnitsByProperty == Reads(ReadAll("property"))
getAvailableUnits == Reads(ReadAll("available"))
getUnitByNumber == Reads(ReadThrough("number"))
propertyUnitService ==
    [createUnit |-> createUnit, updateUnit |-> updateUnit, deleteUnit |-> deleteUnit,
     getUnitsByProperty |-> getUnitsByProperty, getAvailableUnits |-> getAvailableUnits,
     getUnitByNumber |-> getUnitByNumber]

\* propertyLeasePaymentService.  createPayment leaves a column out that may not be null.
createPayment == Creates(Fail \o Save("id"))
updatePayment == Updates(Write \o FindOrFail \o Forget("id") \o Save("id"))
getPaymentById == Reads(ReadThrough("id"))
propertyLeasePaymentService ==
    [createPayment |-> createPayment, updatePayment |-> updatePayment,
     getPaymentById |-> getPaymentById]

\* propertyLeasePaymentTypeService.
createPaymentType == Creates(Insert \o Save("code"))
updatePaymentType ==
    Updates(Find \o IfFound(Write \o FindOrFail \o Forget("code") \o Save("code")))
deletePaymentType == Deletes(Find \o IfFound(Remove \o Forget("code")))
getPaymentTypeByCode == Reads(ReadThrough("code"))
propertyLeasePaymentTypeService ==
    [createPaymentType |-> createPaymentType, updatePaymentType |-> updatePaymentType,
     deletePaymentType |-> deletePaymentType, getPaymentTypeByCode |-> getPaymentTypeByCode]

\* propertyLeaseAgreementService: extend and terminate leave the cache alone, and what the
\* readers store no writer deletes.  LeaseLifecycle has the rows in detail.
createLeaseAgreement == Creates(Insert \o Save("lease"))
updateLeaseAgreement == Updates(Write \o FindOrFail \o Forget("lease") \o Save("lease"))
extendLease == Updates(FindOrFail \o Write \o FindOrFail)
terminateLease == Updates(FindOrFail \o Write \o FindOrFail)
deleteLeaseAgreement == Deletes(Remove \o Forget("lease"))
getByTenant == Reads(ReadAll("tenant"))
getByLandlord == Reads(ReadAll("landlord"))
getLeaseAgreementWithDetails == Reads(ReadThrough("details"))
propertyLeaseAgreementService ==
    [createLeaseAgreement |-> createLeaseAgreement,
     updateLeaseAgreement |-> updateLeaseAgreement, extendLease |-> extendLease,
     terminateLease |-> terminateLease, deleteLeaseAgreement |-> deleteLeaseAgreement,
     getByTenant |-> getByTenant, getByLandlord |-> getByLandlord,
     getLeaseAgreementWithDetails |-> getLeaseAgreementWithDetails]

=============================================================================
