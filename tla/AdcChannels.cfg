SPECIFICATION AdcSpec
INVARIANT TemperatureShown
