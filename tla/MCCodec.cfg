SPECIFICATION Spec
CHECK_DEADLOCK FALSE
CONSTANTS
    root = root
    net = net
    other = other
    disk = disk
    t7 = t7
    t8 = t8
    n7 = n7
    Absent = Absent
    NoName = NoName
    Names <- MCNames
    Id = "id"
    Items = "items"
    SDKToAPINameMap <- MCSDKToAPI
    APIToSDKNameMap <- MCAPIToSDK
    ScopeParams = {}
    ItemParam = "boxId"
    PathParamNameMap <- MCNameMap
    Nodes <- MCNodes
    Root = root
    Writable = {"size_gb", "net_cfg", "boxId"}
    ReadOnly = {"items"}
    Texts <- MCTexts
    Numbers <- MCNumbers
    IdText <- MCIdText
    Answers <- MCAnswers
INVARIANTS
    CodecInvariant
    TypeOK
    WalkIsTransform
    RoundTrip
    SameId
    ImportKeepsId
PROPERTY
    CallEnds
