CONSTANTS
    Capacity = 1
    MaxTicket = 2
    MaxBlocks = 1
    Regions = {r1}
    CounterMod = 16
SPECIFICATION FairSpec
PROPERTIES
    ImplementsLifecycle
    EveryTicketSettles
    DropJoins
