CONSTANTS
    Consumers = {c1, c2, c3}
    Tasks = {t1, t2}
    MaxItems = 3
SPECIFICATION BoundedSpec
INVARIANTS
    NoLostWakeup
    NoSleepAfterStop
PROPERTIES
    StopReleases
    HeadIsTaken
