SPECIFICATION GuiPumpSpec
CONSTANTS
    Catalogue <- MCCatalogue
    Statics = {"cap"}
    Nets = {"net"}
    Disks = {"disk"}
    Hold = 2
    BridgeCap = 2
    MaxForwarded = 3
    MaxCount = 1
    MaxPumpEvents = 1
INVARIANT
    TilesAreOfTheNewHost
CHECK_DEADLOCK FALSE
