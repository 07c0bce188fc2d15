CONSTANTS
    Registers = {8, 16}
    Offsets = {0}
    Garbage = {9}
    AddressSize = 4
    Refuses = TRUE
    MaxInstructions = 4
SPECIFICATION SuiteSpec
INVARIANTS
    HandlerKnowsTheRules
    AssertsHold
    ReadAsEncoded
    FunctionsAsDeclared
    ReadAsWritten
    PointersLive
    StateIsOfTheDump
