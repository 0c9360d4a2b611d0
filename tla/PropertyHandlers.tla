--------------------------- MODULE PropertyHandlers --------------------------
(***************************************************************************)
(* What the controllers of properties, their units, tenants, leases and    *)
(* payments (src/controllers/properties) do with a request, in the steps   *)
(* of ApiHandlers.                                                         *)
(***************************************************************************)
EXTENDS ApiHandlers

-----------------------------------------------------------------------------

listScoped == Try(<<Query({"page", "limit"}), List, sendSuccess>>)
createProperty == Try(<<WholeBody, Write, sendCreated>>)
updateProperty == Try(<<Param(":id"), WholeBody, Change, sendOrNotFound>>)
getPropertyById == Try(<<Param(":id"), Find, sendOrNotFound>>)
getPropertyByCode == Try(<<Param(":code"), Find, sendOrNotFound>>)
getPropertiesByOrganization == Try(<<Param(":organizationId"), List,
    sendSuccess>>)
getPropertiesByOwner == Try(<<Param(":ownerId"), List, sendSuccess>>)
getListedProperties == Try(<<List, sendSuccess>>)
findByConfigKeyValue == Try(<<NeedQuery({"key", "value"}), List, sendSuccess>>)
getPropertiesForUserOrganizations == Try(<<Query({"orgIds"}),
    FilterOfOrganizations, sendSuccess>>)

createAddress == Try(<<WholeBody, Write, sendCreated>>)
updateAddress == Try(<<Param(":id"), WholeBody, Change, sendOrNotFound>>)
getAddressById == Try(<<Param(":id"), Find, sendOrNotFound>>)
deleteAddress == Try(<<Param(":id"), Write, sendNoContent>>)
getAddressesByProperty == Try(<<Param(":propertyId"), List, sendSuccess>>)

createUnit == Try(<<Param(":propertyId"), WholeBody, Write, sendCreated>>)
updateUnit == Try(<<Param(":id"), WholeBody, Change, sendOrNotFound>>)
getUnitsByProperty == Try(<<Param(":propertyId"), Query({"page", "limit",
    "orderBy", "orderDir", "search"}), Text(unitFlags), List, sendSuccess>>)
getAvailableUnits == Try(<<Param(":propertyId"), List, sendSuccess>>)
getUnitByNumber == Try(<<Param(":propertyId"), Param(":unitNumber"), Find,
    sendOrNotFound>>)
getOccupiedUnits == Try(<<Param(":propertyId"), List, sendSuccess>>)
searchUnits == Try(<<Param(":propertyId"), NeedQuery({"query"}),
    Query({"limit"}), List, sendSuccess>>)

listTenantsForUserOrganizations == Try(<<ListOfOrganizations, sendSuccess>>)
createUnitTenant == Try(<<Param(":propertyId"), Param(":unitId"), WholeBody,
    Write, sendCreated>>)
createTenantWithUser == Try(<<Param(":propertyId"), Param(":unitId"),
    WholeBody, Write, sendCreated>>)
updateUnitTenant == Try(<<Param(":id"), WholeBody, Change, sendOrNotFound>>)
deleteUnitTenant == Try(<<Param(":id"), Write, sendNoContent>>)
getTenantsByUnit == Try(<<Param(":unitId"), List, sendSuccess>>)
getActiveTenantByUnit == Try(<<Param(":unitId"), Find, sendOrNotFound>>)
getTenantsByStatus == Try(<<Param(":propertyId"), Param(":status"), List,
    sendSuccess>>)

createOwner == Try(<<WholeBody, Write, sendCreated>>)
updateOwner == Try(<<Param(":id"), WholeBody, Change, sendOrNotFound>>)
getOwnersByProperty == Try(<<Param(":propertyId"), List, sendSuccess>>)
getOwnerByUser == Try(<<Param(":userId"), Find, sendOrNotFound>>)
getLandlordsByRole == Try(<<NeedParam(":role"), List, sendSuccess>>)

createStaff == Try(<<WholeBody, Write, sendCreated>>)
updateStaff == Try(<<Param(":id"), WholeBody, Change, sendOrNotFound>>)
getStaffByProperty == Try(<<Param(":propertyId"), List, sendSuccess>>)
getStaffByUser == Try(<<Param(":userId"), List, sendSuccess>>)

listRequestsForUserOrganizations == Try(<<ListOfOrganizations, sendSuccess>>)
createRequest == Try(<<Param(":propertyId"), WholeBody, Write, sendCreated>>)
updateRequest == Try(<<Param(":id"), WholeBody, Change, sendOrNotFound>>)
deleteRequest == Try(<<Param(":id"), Write, sendNoContent>>)
getRequestsByProperty == Try(<<Param(":propertyId"), List, sendSuccess>>)
getRequestsByStatus == Try(<<Param(":propertyId"), Param(":status"), List,
    sendSuccess>>)
getOpenRequests == Try(<<Param(":propertyId"), List, sendSuccess>>)
getUnassignedRequests == Try(<<Param(":propertyId"), List, sendSuccess>>)
getPriorityRequests == Try(<<Param(":propertyId"), List, sendSuccess>>)
getRecentRequests == Try(<<Param(":propertyId"), Query({"days"}), List,
    sendSuccess>>)

createLeaseAgreement == Try(<<Param(":propertyId"), Param(":unitId"),
    WholeBody, Write, sendCreated>>)
updateLeaseAgreement == Try(<<Param(":id"), WholeBody, Change,
    sendOrNotFound>>)
getLeaseById == Try(<<Param(":id"), Find, sendOrNotFound>>)
deleteLeaseAgreement == Try(<<Param(":id"), Write, sendNoContent>>)
getLeasesByTenant == Try(<<Param(":tenantId"), List, sendSuccess>>)
getLeasesByUnit == Try(<<Param(":unitId"), List, sendSuccess>>)
(* Mutant: the answer is forgotten.                                        *)
getLeaseLedgerUnsent == Try(<<Param(":id"), List>>)
getLeaseLedger == Try(<<Param(":id"), List, sendSuccess>>)
getPropertyRentRoll == Try(<<Param(":propertyId"), NeedQuery({"month"}), List,
    sendSuccess>>)
getArrearsAging == Try(<<Param(":propertyId"), NeedQuery({"asOf"}), List,
    sendSuccess>>)
exportRentRollCsv == Uncaught(<<Param(":propertyId"), NeedQuery({"month"}),
    List, sendSuccess>>)
exportRentRollTaxCsv == Uncaught(<<Param(":propertyId"),
    Query({"multiplier"}), NeedQuery({"month"}), List, sendSuccess>>)
exportArrearsCsv == Uncaught(<<Param(":propertyId"), NeedQuery({"asOf"}),
    List, sendSuccess>>)
exportArrearsTaxCsv == Uncaught(<<Param(":propertyId"), Query({"multiplier"}),
    NeedQuery({"asOf"}), List, sendSuccess>>)
extendLease == Try(<<Param(":id"), Body({"newEndDate", "amount"}), Write,
    sendSuccess>>)
terminateLease == Try(<<Param(":id"), Body({"terminationDate", "reason"}),
    Write, sendSuccess>>)

createPayment == Try(<<Param(":leaseId"), WholeBody, Write, sendCreated>>)
updatePayment == Try(<<Param(":id"), WholeBody, Change, sendOrNotFound>>)
getPaymentsByLease == Try(<<Param(":leaseId"), List, sendSuccess>>)
getPaymentsInDateRange == Try(<<NeedQuery({"start", "end"}), List,
    sendSuccess>>)

=============================================================================
