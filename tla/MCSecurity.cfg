SPECIFICATION Spec
CONSTANTS
    Publisher = "p"
    Subscribers = {"s"}
    Identity <- MCIdentity
    Kids = {"g", "s", "w"}
    Started <- MCStarted
    Stores <- MCStores
    Rekeys <- MCRekeys
    MaxPublished = 2
    MaxChanges = 2
INVARIANTS DeliveredAsSent AckProtected
CHECK_DEADLOCK FALSE
