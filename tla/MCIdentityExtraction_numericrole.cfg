CONSTANT ClaimSets <- MCClaimSetsNumericRole
INIT Init
NEXT Next
CHECK_DEADLOCK FALSE
INVARIANT RolesFromClaims
