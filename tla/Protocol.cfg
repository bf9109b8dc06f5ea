CONSTANTS
    HandlerOf <- HandlerTable
    IdOf <- NumberTable
    CallsOf <- LibraryCalls
    IdsOf <- LibraryIds
    Machines = {"big", "little"}
    MaxCount = 2
    Lengths <- TextLengths
    BodySizes <- Sizes
    Lengthening = 2
SPECIFICATION Spec
INVARIANTS
    InStep
    HandlesComeBack
    SomebodyMoves
CHECK_DEADLOCK FALSE
