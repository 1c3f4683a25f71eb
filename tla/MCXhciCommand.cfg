SPECIFICATION FairSpec
CONSTANTS
    CommandTrbs = 4
    EventTrbs = 3
    MaxCommands = 6
    MaxPortEvents = 2
INVARIANTS EventsCounted CommandsInOrder OwnCompletion
PROPERTY EventsServed
CHECK_DEADLOCK FALSE
