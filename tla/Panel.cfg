CONSTANTS
    MAX_RETRY = 5
    Kconfig = "other"
    None = None
    MaxPowerLoss = 1
    DEBOUNCE_TICKS = 3
SPECIFICATION PanelSpec
INVARIANTS PanelTypeOK AbandonedOnlyAfterMax ModeIsTrue
PROPERTIES BootDecides OncePerPress
CHECK_DEADLOCK FALSE
