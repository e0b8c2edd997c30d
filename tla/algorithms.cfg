SPECIFICATION ClientsSpec
CONSTANTS
    Teams = 2
    InitialPRs = 1
    MaxPRs = 2
    MaxRequests = 1010
    MaxSlow = 11
    MaxFailed = 2
    MaxMade = 3
    MaxCandidates = 5
    MaxCount = 3
    NoRequest = NoRequest
    MaxMembers = 3
INVARIANTS
    LoadTypeOK
    RemembersNewestPRs
    VerdictIsFair
    AcceptedTeamsAreSound
    RefusalsAreTold
    SelectionIsFair
CHECK_DEADLOCK FALSE
