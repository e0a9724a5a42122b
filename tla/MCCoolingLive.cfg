SPECIFICATION CoolingFairSpec
CONSTANTS
    maxtemp = 65
    falloff = 9
    FanLevels <- MCAutomatic
    Temps <- MCTemps
    AutoLevels <- MCOneAutoLevel
    MaxSleepFactor = 200
    XMayFail = FALSE
PROPERTIES FollowsTemperature
