SPECIFICATION CoolingSpec
CONSTANTS
    maxtemp = 65
    falloff = 9
    FanLevels <- MCAllFanLevels
    Temps <- MCTemps
    AutoLevels <- MCAutoLevels
    MaxSleepFactor = 200
    XMayFail = TRUE
INVARIANTS Throttled FanGivenBack
PROPERTIES Hysteresis
