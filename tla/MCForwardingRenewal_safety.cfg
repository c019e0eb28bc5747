CONSTANTS
    s1 = s1
    s2 = s2
    Signers <- MCSigners
    Lifetimes <- MCLifetimes
    BackoffDelay <- MCBackoffDelay
SYMMETRY MCSymmetry
INIT Init
NEXT Next
INVARIANTS
    TypeOK
    RenewOnlyNearExpiry
    NoLockAcrossIO
    NoNilIdentityDeref
PROPERTIES
    SignedTokenIntact
    ImplementsLock
