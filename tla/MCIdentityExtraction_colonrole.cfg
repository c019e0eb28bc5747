CONSTANT ClaimSets <- MCClaimSetsColonRole
INIT Init
NEXT Next
CHECK_DEADLOCK FALSE
INVARIANT ClientRoleGranted
