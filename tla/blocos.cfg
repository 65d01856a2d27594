SPECIFICATION Spec
CONSTANTS
    Requests = {r1, r2, r3}
    Nobody = nobody
    Home = home
    First = first
    Firsts = {"canvas"}
    Same = undefined
    Updates <- MCUpdates
    MaxInFlight = 2
    MaxFailures = 1
    MaxFaults = 1
SYMMETRY Symmetry
INVARIANTS
    ContentKept
    OneCanvas
    ListsHaveTheirBlocos
PROPERTIES
    NoResurrection
