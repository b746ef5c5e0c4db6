SPECIFICATION Spec
CONSTANTS
    Chars <- Characters
    Unprintable <- ControlCharacters
    Reserved <- ReservedName
    MaxText = 5
    Urls <- MCUrls
    OpenPrefixes <- MCPrefixes
    Keys <- MCKeys
    MaxChildren = 2
    MaxVersion = 1
    MaxLive = 5
    Nil = Nil
INVARIANTS
    HeapBalanced
    
    CallerTold
    PathsAgree
CHECK_DEADLOCK FALSE
