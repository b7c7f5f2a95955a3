CONSTANTS
    alice = alice
    bob = bob
    import1 = import1
    import2 = import2
    villa = villa
    tower = tower
    r1 = r1
    r2 = r2
    c1 = c1
    c2 = c2
    NoActor = NoActor
    NoConfig = NoConfig
    Users <- MCUsers
    Importers <- MCImporters
    Buildings <- MCBuildings
    Roofs = {r1, r2}
    BuildingOf <- MCBuildingOf
    Cells = {c1, c2}
    WallOf <- MCWallOf
    Menu <- MCMenu
SPECIFICATION Spec
PROPERTY
    ReceiptsSurvive
