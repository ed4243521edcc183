CONSTANTS
    MAX_RETRY = 5
    Kconfig = "home"
    None = None
    MaxPowerLoss = 0
SPECIFICATION Spec
INVARIANT PortalMode
CHECK_DEADLOCK FALSE
