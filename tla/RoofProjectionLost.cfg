CONSTANTS
    alice = alice
    bob = bob
    import1 = import1
    import2 = import2
    villa = villa
    tower = tower
    r1 = r1
    r2 = r2
    NoActor = NoActor
    NoConfig = NoConfig
    Users <- MCUsers
    Importers <- MCImporters
    Buildings <- MCBuildings
    Roofs = {r1, r2}
    BuildingOf <- MCBuildingOf
    Cells = {}
    WallOf <- MCWallOf
    Menu <- PreservingMenu
    Viewers = {viewer}
SPECIFICATION PSpec
INVARIANT
    RemovedRoofsStayHidden
