CONSTANTS
    MaxCommands = 3
    MaxIrqs = 2
    MaxTurns = 2
    CycleMod = 3
SPECIFICATION Spec
INVARIANTS
    BalancedBetweenOperations
    OwnPosition
    HandlersInvisible
PROPERTY
    InstructionsApart
