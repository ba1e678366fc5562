\* Every list of up to two rules, and of three enabled ones.
SPECIFICATION IndexSpec
CONSTANTS
    Domain <- MCDomain
    NoDomain = ""
    Lower <- MCLower
    Provider <- MCProvider
    RuleLists <- MCLongLists
INVARIANTS
    Precedence
CHECK_DEADLOCK FALSE
