SPECIFICATION Spec
CONSTANTS
    i1 = i1
    i2 = i2
    Absent = Absent
    Null = Null
    NoResource = NoResource
    Id = "id"
    Names <- MCNames
    SDKToAPINameMap <- MCSDKToAPI
    APIToSDKNameMap <- MCAPIToSDK
    ScopeParams <- MCScope
    ItemParam <- MCItem
    PathParamNameMap <- MCNameMap
    Values <- MCValues
    Ids <- MCIds2
    BodyNames <- MCBody
    APIs <- MCAPIs
    Programs <- MCPrograms
    Engines <- MCModern
    MaxMishaps = 2
SYMMETRY MCSymmetry2
INVARIANTS
    OwnInv
    TypeOK
    TargetsOwn
    Addressable
    InSync
    OutputsInSync
    PatchNamesKind
    OwnershipInv
    SyncInv
    NoForgottenObject
    DiffAnswers
PROPERTIES
    OnlyForCause
    UpdatesOnlyChanged
    RefreshStable
    RefreshKeepsOutputs
    ImplementsOwnership
