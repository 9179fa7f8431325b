SPECIFICATION FairSpec
CONSTANTS
    Timers = {t1}
    Io = Io
    CallLater = CallLater
    Callers = {c1, c2}
    Quitter = c2
    NoTask = NoTask
    t1 = t1
    c1 = c1
    c2 = c2
INVARIANT OnePlace
INVARIANT NoLostWakeUp
PROPERTY ImplementsLaterCalls
PROPERTY CallsMade
PROPERTY TimersFire
PROPERTY QuitEnds
CONSTRAINT OneStays
CHECK_DEADLOCK FALSE
