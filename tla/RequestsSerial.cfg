SPECIFICATION Spec
CONSTANTS
    r1 = r1
    r2 = r2
    h1 = h1
    h2 = h2
    h3 = h3
    h4 = h4
    n1 = n1
    n2 = n2
    Registrars = {r1}
    Hosts = {h1}
    Sponsor <- MCSponsorAllR1
    MaxHostsPerDomain = 1
    YEAR = 1
    RegistrationGP = 1
    RedemptionGP = 1
    PendingDeleteGP = 1
    MaxHorizon = 1
    RequiresValidation = FALSE
    Names = {n1}
    Procs = {p1}
    Workers = {}
    Commands <- SerialCommands
    AllowAutoRenew = TRUE
    AutoRenewRars = {r1}
    MaxTime = 5
    MaxExpiry = 3
    MaxRoid = 1
INVARIANTS TypeOK
PROPERTIES PurgeIsDue DeletionSticks RenewalsAccumulate
