SPECIFICATION Spec
CONSTANTS
    Calls <- MCCalls
    Dirs <- MCDirs
    Providers = {"c"}
    EndpointSize = 24
    UrlSize = 24
    BaseUrl = 2
    EscapedSize = 40
    BodySlack = 16
    RawUriSize = 24
    PathSize = 20
    LocalSize = 32
    ListedSize = 8
    NameSize = 4
    MetaPathSize = 72
    MaxTokens = 28
    MaxEntries = 28
INVARIANT
    MetaOfAnyName
