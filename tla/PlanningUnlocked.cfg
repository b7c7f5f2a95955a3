CONSTANTS
    t1 = t1
    t2 = t2
    house = house
    barn = barn
    c1 = c1
    c2 = c2
    c3 = c3
    d1 = d1
    g1 = g1
    g2 = g2
    g3 = g3
    NoGeneration = NoGeneration
    NoJob = NoJob
    NoWorker = NoWorker
    NoRow = NoRow
    Workers <- MCWorkers
    Buildings <- MCBuildings
    Children <- MCChildren
    AreaOf <- MCAreaOf
    Generations <- MCGenerations
    Menu <- UnlockedMenu
SPECIFICATION Spec
PROPERTY
    NoOldRoofWaits
