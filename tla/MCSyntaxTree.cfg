CONSTANTS
    MaxChars = 4
    Texts <- SyntaxTexts
SPECIFICATION SyntaxSpec
INVARIANTS
    LexTypeOK
    RelexSameKind
    StringRoundTrip
    NumberRoundTrip
    ParseYieldsInput
    BinaryOperatorsGroupByPrecedence
PROPERTY LexAdvances
CHECK_DEADLOCK FALSE
