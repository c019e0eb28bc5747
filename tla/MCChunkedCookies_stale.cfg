CONSTANTS
    AccessName = a
    RefreshName = rf
    StateName = st
    URIName = ur
    a = a
    rf = rf
    st = st
    ur = ur
    NameLen <- MCNameLen
    TokenValues <- MCTokenValues
    StateValues <- MCStateValues
    URIValues <- MCURIValues
    Configs <- MCConfigs
    Hosts <- MCHostsShort
    MaxChunkIndex <- MCMaxChunkIndex
    MaxInflight <- MCMaxInflight
    FilterNames <- MCFilterNames
INIT Init
NEXT Next
INVARIANT ReadBack
