SPECIFICATION Spec
CONSTANTS
    People = {"ann", "bob"}
    PortalTenants = {"bob"}
    Callers = {1, 2}
    MaxCalls = 3
    MaxUsers = 3
    MaxTokens = 2
    MaxCodes = 1
    Assets = {1, 2}
    Repos = {1, 2}
    Names = {"n1", "n2"}
    MaxRequests = 3
INVARIANTS
    AccountsApart
    RecordsAgree
CHECK_DEADLOCK FALSE
