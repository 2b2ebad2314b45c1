SPECIFICATION Spec
INVARIANTS
    TypeOK
    NoOperationRefused
    VersionTellsSchema
    HeadServesTheModels
