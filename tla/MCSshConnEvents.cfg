CONSTANTS
    SshClients = 2
    HealthEvents = 1
SPECIFICATION SshSpec
CHECK_DEADLOCK FALSE
INVARIANTS LastEventCurrent
