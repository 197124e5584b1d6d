SPECIFICATION Spec
CONSTANTS
    i1 = i1
    i2 = i2
    Absent = Absent
    Null = Null
    NoResource = NoResource
    Id = "id"
    Names <- MCNames
    SDKToAPINameMap <- MCSDKToAPI
    APIToSDKNameMap <- MCAPIToSDK
    ScopeParams <- MCScope
    ItemParam <- MCItem
    PathParamNameMap <- MCNameMap
    Values <- MCValues
    Ids <- MCIds2
    BodyNames <- MCBody
    APIs <- MCNoContent
    Programs <- MCPrograms
    Engines <- MCModern
    MaxMishaps = 2
SYMMETRY MCSymmetry2
INVARIANT
    Addressable
