CONSTANTS
    MAX_PROCESS = 6
    TM_MAX = 3
    PER_TERM = 4
SPECIFICATION Spec
INVARIANTS
    TypeOK
    ContextAgrees
    HiddenTerminalsResumable
    Lineage
    CountsAgree
    RespawnSucceeds
PROPERTIES
    OnlyCurrentEnds
    HiddenUntouched
    ImplementsSessions
