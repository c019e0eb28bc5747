CONSTANT ClaimSets <- MCClaimSets
INIT Init
NEXT Next
\* extractIdentity returns: nothing is left to do once it has.
CHECK_DEADLOCK FALSE
\* Go's static types fix the shape of the userContext; the invariants are
\* about its content.
INVARIANTS
    FailureTaxonomy
    RolesFromClaims
    ProfileFromClaims
