CONSTANTS
    Chars <- MCChars
    Repo <- MCRepo
    Latest <- MCLatest
    MaxTagLen = 3
    MaxNameLen = 3
    NameLimit = 2
    MaxOps = 4
    ApiKeys <- MCApiKeys
    HeaderChars <- MCHeaderChars
    MaxHeaderLen = 4
SPECIFICATION Spec
INVARIANT TypeOK
INVARIANT ColonFreeTagRoundTrip
INVARIANT NoLateRejection
INVARIANT OnlyKeyHoldersWrite
