SPECIFICATION Spec
CONSTANTS
    Requests = {r1, r2, r3}
    Nobody = nobody
    First = first
    Same = undefined
    Primeira = primeira
    Inicial = inicial
    Antigo = antigo
    Days <- MCDays
    Today = 2
    Registrados = {{}}
    Areas <- MCAreas
    MaxInFlight = 2
    MaxFailures = 1
    MaxFaults = 0
SYMMETRY Symmetry
INVARIANTS
    FieldsKept
    OneValuePerCampo
    ItemIsOneSave
    ItemsAreWhole
    RegistrosCount
    StreaksAgree
    StreakRow
    ListIsCurrent
PROPERTIES
    AfterDeletion
