SPECIFICATION Spec
CONSTANTS
    Callers = {consumers, relay}
    Relay = relay
    MaxFaults = 4
INVARIANTS
    TypeOK
    DeadChannelsAreStillborn
    ConnectionsAreBounded
PROPERTIES
    CallersAreServed
