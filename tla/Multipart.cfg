SPECIFICATION MultipartSpec
CONSTANTS
    Key = {k1, k2}
    NoKey = NoKey
    File = {f1}
    NoFile = NoFile
    MaxParts = 2
    MaxFiles = 3
    MaxVersion = 1
INVARIANT ResultsExact
PROPERTY NeverOverwrites
