CONSTANTS
    s1 = s1
    s2 = s2
    Signers <- MCSigners
    Lifetimes <- MCLifetimes
    BackoffDelay <- MCBackoffDelay
SPECIFICATION Spec
PROPERTIES
    SignedTokenIssued
