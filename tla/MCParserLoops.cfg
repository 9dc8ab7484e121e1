CONSTANTS
    MaxTokens = 3
    Inputs <- LoopInputs
    ParsedInputs <- TabulatedParse
SPECIFICATION Spec
PROPERTY ParseReturns
CHECK_DEADLOCK FALSE
