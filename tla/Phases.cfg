SPECIFICATION Spec
CONSTANTS
    g1 = g1
    g2 = g2
    usd = usd
    PhaseNames = {g1, g2}
    Lists = {l1}
    NoList = NoList
    NoEnd = NoEnd
    Policies = {0, 1}
    NewPolicy = 0
    Horizon = 3
    Procs = {p1, p2}
    NewPhases <- CalendarPhases
    Charges <- MCCharges
    MaxId = 2
INVARIANTS TypeOK ReferentialIntegrity GAPhasesDisjoint
PROPERTIES StartedPhasesKept HistoricPhasesFrozen EndDatesMoveForward
    CurrentPhaseProtectsTld
SYMMETRY ProcSymmetry
CONSTRAINT Bounded
