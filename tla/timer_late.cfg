CONSTANTS
    t1 = t1
    Timers <- OneTimer
    Sizes <- SmallSizes
    DaySpan = 64
    IntSpan = 65536
    LongSpan = 16777216
    Intervals <- DayAndMore
    Ttls <- Limits
    AddTicks <- FirstDay
    LastTick = 150
SPECIFICATION Spec
PROPERTY FiresOnTime
CHECK_DEADLOCK FALSE
