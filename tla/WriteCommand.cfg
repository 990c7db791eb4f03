SPECIFICATION Spec
CONSTANTS
    Padded <- MCPadded
    MetricNames <- MCMetricNames
    LabelNames <- MCLabelNames
    Lower <- MCLower
    Upper <- MCUpper
    Digits <- MCDigits
    Configs <- MCConfigs
    Worlds <- MCWorlds
    Rows <- MCRows
    None = None
CHECK_DEADLOCK FALSE
INVARIANTS
    PlanIsSound
    AcceptedConfigsRun
    MetricsFileIsValid
    ColumnsGetTheirNames
