CONSTANTS
    plus = plus
    name = name
    colon = colon
    semicolon = semicolon
    Kind = {plus, name, colon, semicolon}
    Eof = Eof
    FirstKind = plus
    Texts <- AllTexts
    Pairs <- MCPairs
    Sought = {{semicolon}, {name, semicolon}}
    FirstWindow = 2
    CursorLimit = 16
SPECIFICATION FairSpec
INVARIANTS
    TypeOK
    WindowIsAhead
    InsideTheBuffer
PROPERTIES
    ImplementsStream
    SkippingEnds
