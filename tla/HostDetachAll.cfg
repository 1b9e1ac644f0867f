SPECIFICATION Spec
CONSTANTS
    MaxHosts = 3
    MaximumAttempts = 3
INVARIANTS AllHostsRemoved
CHECK_DEADLOCK FALSE
