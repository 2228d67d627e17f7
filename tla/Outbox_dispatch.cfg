SPECIFICATION MCSpec
CONSTANTS
    None = None
    Events = {e1, e2, e3}
    Dispatchers = {d1, d2}
    States <- AllStates
    Limit = 2
    MaxAttempts = 2
    Members = {m1, m2}
    Partitions <- NoneOrOne
    MaxTopic = 3
INVARIANTS OutboxInv TopicMatchesTable EffectsAreOwed NothingSlipsThrough
PROPERTIES OutcomeIsFinal OvertakesOnlyMissed StrandedByFailureOnly
CHECK_DEADLOCK FALSE
