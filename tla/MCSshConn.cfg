CONSTANTS
    SshClients = 2
    HealthEvents = 1
SPECIFICATION SshFairSpec
CHECK_DEADLOCK FALSE
INVARIANTS OneOpenClient StatusFitsClient ChangesAnnounced
PROPERTIES LossNoticed
