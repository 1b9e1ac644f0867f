SPECIFICATION WorkflowsSpec
CONSTANTS
    r1 = r1
    r2 = r2
    n1 = n1
    Registrars = {r1, r2}
    Hosts = {}
    Sponsor <- MCSponsor
    MaxHostsPerDomain = 1
    YEAR = 1
    RegistrationGP = 0
    RedemptionGP = 1
    PendingDeleteGP = 0
    MaxHorizon = 1
    RequiresValidation = FALSE
    Names = {n1}
    Procs = {c1, w1, w2}
    Workers = {w1, w2}
    Commands <- RestoreCommands
    AllowAutoRenew = TRUE
    AutoRenewRars = {r1}
    MaxTime = 3
    MaxExpiry = 12
    MaxRoid = 1
    MaximumAttempts = 2
    MaxFailures = 2
    MaxCalls = 3
PROPERTIES RestoreTriedAgain
\* The workflows have nothing left to do when every domain is settled.
CHECK_DEADLOCK FALSE
