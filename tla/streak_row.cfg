SPECIFICATION Spec
CONSTANTS
    Requests = {r1, r2}
    Nobody = nobody
    First = first
    Same = undefined
    Primeira = primeira
    Inicial = inicial
    Antigo = antigo
    Days <- MCDays
    Today = 2
    Registrados <- MCRegistrados
    Areas <- OnlyHabitos
    MaxInFlight = 2
    MaxFailures = 0
    MaxFaults = 0
SYMMETRY Symmetry
INVARIANTS
    StreakIsRecalculated
