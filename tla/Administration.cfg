SPECIFICATION AdministrationSpec
CONSTANTS
    h1 = h1
    h2 = h2
    d1 = d1
    d2 = d2
    r1 = r1
    ip1 = ip1
    HostProcs = {p1, p2}
    HostDomains = {d1, d2}
    Sponsor <- MCSponsor
    HostKeys <- MCHostKeys
    Bailiwick <- MCBailiwick
    IPs = {ip1, ip2}
    MaxAddresses = 1
    NewHosts <- MCNewHosts
    MaxHostId = 2
    ContactProcs = {p1, p2}
    ContactIds = {c1, c2}
    ContactDomains = {d1}
    ContactStatuses <- MCContactStatuses
    MaxContactRoid = 3
    RarProcs = {p1, p2}
    ClIDs = {c1, c2}
    RarNames = {h1, h2}
    RarTlds = {t1}
    Generic = {t1}
    RarUpdates <- MCRarUpdates
    Unnamed = Unnamed
    Currencies = {"USD", "JPY"}
    Base = "USD"
    PlainNames = {"a", "ab"}
    LabelsLike <- MCLabelsLike
    MinorUnits <- MCMinorUnits
    Tariffs <- MCTariffs
    PhaseTables <- MCPhaseTables
    Grandfatherings <- MCGrandfatherings
    Rates <- MCRates
    Horizons = {1, 2}
    PremiumPage = 1
    MaxLabels = 2
INVARIANTS AdministrationTypeOK ReferencesHold AddressLimit LinkedTellsUse
    ContactStatusCoherent AccreditedOnceQualified
    QuoteAddsUp PremiumNeverUndercut
PROPERTIES RoidsKept
SYMMETRY ServerSymmetry
