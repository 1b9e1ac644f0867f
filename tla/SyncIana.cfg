SPECIFICATION BatchSpec
CONSTANTS
    MaxHosts = 3
    MaximumAttempts = 3
    MaxKey = 1
    PageSizes = {1}
    Filters <- MCFilters
    MaxChanges = 2
    Refreshes = {1, 2, 3}
    Published <- MCPublished
    SyncAttempts = 2
    BatchSize = 1
    DefaultPageSize = 1
    Reserved = {2}
    c1 = c1
    c2 = c2
    h1 = h1
    h2 = h2
    d1 = d1
    d2 = d2
    n1 = n1
    n2 = n2
    r1 = r1
    r2 = r2
    r3 = r3
    r4 = r4
    a = a
    b = b
    Contacts = {c1, c2}
    Hosts = {h1, h2}
    Domains = {d1, d2}
    NNDNs = {n1, n2}
    Sponsor <- MCSponsor
    Agents <- MCAgents
    ContactsOf <- MCContactsOf
    Nameservers <- MCNameservers
    InBailiwick <- MCInBailiwick
    Glue = {h2}
    Listed = {r1, r2, r3}
    MaxHostsPerDomain = 1
    StatusLinked = {c1, c2}
    Invalid = {n2}
    ClIDOf <- MCClIDOf
    NoClID = NoClID
    SaidFlags <- MCSaidFlags
    MaxSaid = 1
    Workers = {w1, w2}
    MaxRuns = 1
    MaxFaults = 0
PROPERTIES SyncedWhenDone
CHECK_DEADLOCK FALSE
