SPECIFICATION Spec
CONSTANTS
    Parent <- MCParent
    Deployments <- MCDeployments
    Warning <- MCWarning
    Headers <- MCHeaders
    MinBIP9WarningHeight = 2
INVARIANTS
    TypeOK
    StateByRule
    InfoIsRight
    WarningByRule
