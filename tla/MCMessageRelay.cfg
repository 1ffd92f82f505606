CONSTANTS
    None = None
    Messages <- AllMessages
    OverlayPaths <- AllOverlayPaths
    MaxHops = 5
SPECIFICATION Spec
CHECK_DEADLOCK FALSE
INVARIANTS
    ArrivesUnchanged
    ReaderAcceptsWriter
    RouteWasTravelled
