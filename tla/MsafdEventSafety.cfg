CONSTANTS
    EventObjects = {e1}
    Selectable = {"CONNECT", "CLOSE", "ROUTING_INTERFACE_CHANGE"}
    Activity = {"RECEIVE", "CONNECT_FAIL", "ABORT"}
    MaxSeq = 2
SPECIFICATION Spec
INVARIANT TypeOK
INVARIANT NoSelectedEventLost
